---- MODULE Spec2Model ----
(***************************************************************************)
(* Health/fault engine of the radar monitoring platform (RadarRMP).        *)
(*                                                                         *)
(*   sub  - one RadarSubsystem object (base class or PowerSupplySubsystem) *)
(*          with the single-shot events it has posted to its event loop    *)
(*   fm   - the FaultManager ledger                                        *)
(*   ha   - the fault records of HealthAnalytics                           *)
(*   thd  - the threads that call into one unit                            *)
(*   thr  - the throttle scheduler of SubsystemManager                     *)
(*   fn   - argument/result of the per-type compute functions and of the   *)
(*          pipeline's validateData                                        *)
(*   now  - wall clock in milliseconds                                     *)
(*   pl   - the HealthDataPipeline with its queue and drain timer          *)
(*   ta   - the series of TrendAnalyzer                                    *)
(*   ut   - the records of UptimeTracker                                   *)
(*   td   - the parameters of one TelemetryData                            *)
(*   mgr  - a unit registered with SubsystemManager, the FaultManager and  *)
(*          the queued signal deliveries between them                      *)
(*                                                                         *)
(* Scores are kept in hundredths of a point (100.0 is 10000) so that the   *)
(* linear penalties and the 0.1 / 0.01 noise floors stay exact integers.   *)
(***************************************************************************)
EXTENDS Integers, Sequences, FiniteSets, TLC

VARIABLES sub, fm, ha, thd, thr, fn, now, pl, ta, ut, td, mgr

vars == <<sub, fm, ha, thd, thr, fn, now, pl, ta, ut, td, mgr>>

(***************************************************************************)
(* Bounds of the model                                                     *)
(***************************************************************************)
MaxPosted == 1
MaxRequests == 2
MaxUnitHistory == 1
MaxLedgerTime == 100
MaxRegistrations == 3
MaxWindowCalls == 3
MaxThreadCalls == 2
MaxQueue == 2
MaxSubmitted == 3
MaxBurst == 11
MaxFmHistory == 2
MaxDataPoints == 2
MaxAdded == 3
MaxUtCalls == 3
MaxClockSteps == 2
MaxWriterCalls == 3
MaxReaderCalls == 2
MaxTrendPoints == 5
MaxExtraPoints == 1
MaxMgrCalls == 4
MaxInjCalls == 3

(***************************************************************************)
(* include/core/HealthStatus.h                                             *)
(***************************************************************************)
INFO == 0
WARNING == 1
CRITICAL == 2
FATAL == 3
FaultSeverity == {INFO, WARNING, CRITICAL, FATAL}

HealthState == {"OK", "DEGRADED", "FAIL", "UNKNOWN"}

\* FaultCode(code, desc, severity, subsystem): active = true; the description
\* is a fixed text per code, so the code stands for it.
FaultCode(c, sev) == [code |-> c, severity |-> sev, active |-> TRUE]

Kinds == {"Base", "PowerSupply"}

Abs(x) == IF x < 0 THEN -x ELSE x
Min(a, b) == IF a < b THEN a ELSE b
Max(a, b) == IF a > b THEN a ELSE b

(***************************************************************************)
(* RadarSubsystem: src/src/core/RadarSubsystem.cpp                         *)
(***************************************************************************)
SIGNAL_DEBOUNCE_MS == 50
TickMs == SIGNAL_DEBOUNCE_MS
SCORE_FULL == 10000
PENALTY_INFO == 500
PENALTY_WARNING == 1500
PENALTY_CRITICAL == 3000
PENALTY_FATAL == 5000
NOISE_FLOOR == 10

\* Faults a class derived from the base hands to the protected addFault.
Codes == {"F1", "F2", "F3"}
BaseFaults == {FaultCode("F1", INFO), FaultCode("F1", CRITICAL),
               FaultCode("F2", WARNING), FaultCode("F2", FATAL),
               FaultCode("F3", FATAL)}

\* PowerSupplySubsystem: thresholds and fault codes of the header
INPUT_VOLTAGE_LOW_WARNING == 200
INPUT_VOLTAGE_LOW_CRITICAL == 180
INPUT_VOLTAGE_HIGH_WARNING == 250
INPUT_VOLTAGE_HIGH_CRITICAL == 270
BATTERY_WARNING == 30
BATTERY_CRITICAL == 10
TEMP_WARNING == 50
TEMP_CRITICAL == 65
\* computeHealthScore: the penalty of a critical input voltage (35 points)
INPUT_VOLTAGE_CRITICAL_PENALTY == 3500
FAULT_INPUT_LOW == "PSU-001"
FAULT_INPUT_HIGH == "PSU-002"
FAULT_OVERTEMP == "PSU-006"
FAULT_BATTERY_LOW == "PSU-007"

\* The telemetry parameters of the power supply that the model keeps, with
\* the metadata initializeTelemetryParameters gives them (None: not set).
None == -1
PsuParams == {"inputVoltage", "outputVoltage", "temperature", "batteryLevel", "onBattery"}

PsuMeta ==
  [inputVoltage  |-> [warningLow |-> 200, criticalLow |-> 180, warningHigh |-> 250, criticalHigh |-> 270],
   outputVoltage |-> [warningLow |-> 45, criticalLow |-> 42, warningHigh |-> 52, criticalHigh |-> 55],
   temperature   |-> [warningLow |-> None, criticalLow |-> None, warningHigh |-> 50, criticalHigh |-> 65],
   batteryLevel  |-> [warningLow |-> 30, criticalLow |-> 10, warningHigh |-> None, criticalHigh |-> None],
   onBattery     |-> [warningLow |-> None, criticalLow |-> None, warningHigh |-> None, criticalHigh |-> None]]

\* Values after initializeTelemetryParameters (onBattery: 0 is false).
PsuInitialTelemetry ==
  [inputVoltage |-> 220, outputVoltage |-> 48, temperature |-> 35,
   batteryLevel |-> 100, onBattery |-> 0]

InitializeTelemetryParameters(kind) ==
  IF kind = "PowerSupply" THEN PsuInitialTelemetry ELSE <<>>

\* TelemetryData::isCritical for a stored numeric value
IsCritical(meta, v) ==
  \/ meta.criticalLow # None /\ v < meta.criticalLow
  \/ meta.criticalHigh # None /\ v > meta.criticalHigh

\* TelemetryData::isWarning for a stored numeric value
IsWarning(meta, v) ==
  /\ \/ meta.warningLow # None /\ v < meta.warningLow
     \/ meta.warningHigh # None /\ v > meta.warningHigh
  /\ ~IsCritical(meta, v)

\* TelemetryData::setValues: only parameters the store knows are written
SetValues(telemetry, data) ==
  [p \in DOMAIN telemetry |-> IF p \in DOMAIN data THEN data[p] ELSE telemetry[p]]

\* The object after the constructor has run.
NewSubsystem(kind) ==
  [kind |-> kind,
   m_healthState |-> "UNKNOWN",
   m_healthScore |-> SCORE_FULL,
   m_statusMessage |-> "",
   m_enabled |-> TRUE,
   m_activeFaults |-> <<>>,
   m_faultHistory |-> <<>>,
   telemetry |-> InitializeTelemetryParameters(kind),
   m_processingHealth |-> FALSE,
   m_healthUpdatePending |-> FALSE,
   m_mutex |-> "free",
   m_pendingHealthSignal |-> FALSE,
   m_pendingTelemetrySignal |-> FALSE,
   sinceHealthSignal |-> SIGNAL_DEBOUNCE_MS,
   sinceTelemetrySignal |-> SIGNAL_DEBOUNCE_MS,
   debounceLeft |-> None,
   pc |-> "idle",
   posted |-> 0,
   requests |-> 0,
   passParity |-> 0,
   lastTransition |-> FALSE,
   lastNotify |-> "none"]

RECURSIVE HasSeverity(_, _)
HasSeverity(faults, sevs) ==
  IF faults = <<>> THEN FALSE
  ELSE Head(faults).severity \in sevs \/ HasSeverity(Tail(faults), sevs)

\* computeHealthState that does not look at m_enabled
ComputeHealthStateIgnoringEnabled(s) ==
  IF HasSeverity(s.m_activeFaults, {FATAL, CRITICAL}) THEN "FAIL"
  ELSE IF HasSeverity(s.m_activeFaults, {WARNING}) THEN "DEGRADED"
  ELSE "OK"

\* RadarSubsystem::computeHealthState (base class)
ComputeHealthState(s) ==
  IF ~s.m_enabled THEN "UNKNOWN"
  ELSE IF HasSeverity(s.m_activeFaults, {FATAL, CRITICAL}) THEN "FAIL"
  ELSE IF HasSeverity(s.m_activeFaults, {WARNING}) THEN "DEGRADED"
  ELSE "OK"

Penalty(sev) ==
  CASE sev = INFO -> PENALTY_INFO
    [] sev = WARNING -> PENALTY_WARNING
    [] sev = CRITICAL -> PENALTY_CRITICAL
    [] sev = FATAL -> PENALTY_FATAL

RECURSIVE FaultPenalties(_)
FaultPenalties(faults) ==
  IF faults = <<>> THEN 0
  ELSE Penalty(Head(faults).severity) + FaultPenalties(Tail(faults))

\* computeHealthScore without its qMax(0.0, score)
ComputeHealthScoreUnclamped(s) ==
  SCORE_FULL - FaultPenalties(s.m_activeFaults)

\* RadarSubsystem::computeHealthScore (base class)
ComputeHealthScore(s) ==
  Max(0, SCORE_FULL - FaultPenalties(s.m_activeFaults))

RECURSIVE MostSevere(_, _, _)
MostSevere(faults, maxSeverity, message) ==
  IF faults = <<>> THEN message
  ELSE IF Head(faults).severity > maxSeverity
       THEN MostSevere(Tail(faults), Head(faults).severity, Head(faults).code)
       ELSE MostSevere(Tail(faults), maxSeverity, message)

\* RadarSubsystem::computeStatusMessage (base class)
ComputeStatusMessage(s) ==
  IF ~s.m_enabled THEN "Disabled"
  ELSE IF s.m_activeFaults = <<>> THEN "Operating normally"
  ELSE MostSevere(s.m_activeFaults, INFO, "Active faults present")

(***************************************************************************)
(* PowerSupplySubsystem: src/src/subsystems/PowerSupplySubsystem.cpp       *)
(* isEnabled(), hasFaults() and getFaultCount() are read here as the       *)
(* fields they return.                                                     *)
(***************************************************************************)
IsOnBattery(s) == s.telemetry.onBattery # 0

\* PowerSupplySubsystem::computeHealthState
ComputeHealthStatePsu(s) ==
  LET inputV == s.telemetry.inputVoltage
      battery == s.telemetry.batteryLevel
      temp == s.telemetry.temperature
  IN  IF ~s.m_enabled THEN "UNKNOWN"
      ELSE IF \/ inputV <= INPUT_VOLTAGE_LOW_CRITICAL
              \/ inputV >= INPUT_VOLTAGE_HIGH_CRITICAL
              \/ temp >= TEMP_CRITICAL
              \/ (IsOnBattery(s) /\ battery <= BATTERY_CRITICAL)
           THEN "FAIL"
      ELSE IF \/ inputV <= INPUT_VOLTAGE_LOW_WARNING
              \/ inputV >= INPUT_VOLTAGE_HIGH_WARNING
              \/ temp >= TEMP_WARNING
              \/ (IsOnBattery(s) /\ battery <= BATTERY_WARNING)
           THEN "DEGRADED"
      ELSE IF IsOnBattery(s) THEN "DEGRADED"
      ELSE IF s.m_activeFaults # <<>> THEN "DEGRADED"
      ELSE "OK"

\* PowerSupplySubsystem::computeHealthScore
ComputeHealthScorePsu(s) ==
  LET inputV == s.telemetry.inputVoltage
      battery == s.telemetry.batteryLevel
      temp == s.telemetry.temperature
      pIn == IF inputV <= INPUT_VOLTAGE_LOW_CRITICAL \/ inputV >= INPUT_VOLTAGE_HIGH_CRITICAL
               THEN INPUT_VOLTAGE_CRITICAL_PENALTY
             ELSE IF inputV <= INPUT_VOLTAGE_LOW_WARNING
               THEN (1500 * (INPUT_VOLTAGE_LOW_WARNING - inputV))
                      \div (INPUT_VOLTAGE_LOW_WARNING - INPUT_VOLTAGE_LOW_CRITICAL)
             ELSE IF inputV >= INPUT_VOLTAGE_HIGH_WARNING
               THEN (1500 * (inputV - INPUT_VOLTAGE_HIGH_WARNING))
                      \div (INPUT_VOLTAGE_HIGH_CRITICAL - INPUT_VOLTAGE_HIGH_WARNING)
             ELSE 0
      pTemp == IF temp >= TEMP_CRITICAL THEN 3000
               ELSE IF temp >= TEMP_WARNING
                 THEN (1500 * (temp - TEMP_WARNING)) \div (TEMP_CRITICAL - TEMP_WARNING)
               ELSE 0
      pBat == IF ~IsOnBattery(s) THEN 0
              ELSE 1000 + (IF battery <= BATTERY_CRITICAL THEN 2500
                           ELSE IF battery <= BATTERY_WARNING
                             THEN (1500 * (BATTERY_WARNING - battery))
                                    \div (BATTERY_WARNING - BATTERY_CRITICAL)
                           ELSE 0)
      score == SCORE_FULL - pIn - pTemp - pBat - Len(s.m_activeFaults) * 500
  IN  Max(0, Min(SCORE_FULL, score))

\* PowerSupplySubsystem::computeStatusMessage (the formatted numbers of the
\* texts are left out, but for the battery level)
ComputeStatusMessagePsu(s) ==
  LET inputV == s.telemetry.inputVoltage
      battery == s.telemetry.batteryLevel
  IN  IF ~s.m_enabled THEN <<"Power Supply disabled">>
      ELSE IF inputV <= INPUT_VOLTAGE_LOW_CRITICAL THEN <<"CRITICAL: Input voltage low">>
      ELSE IF inputV >= INPUT_VOLTAGE_HIGH_CRITICAL THEN <<"CRITICAL: Input voltage high">>
      ELSE IF IsOnBattery(s)
           THEN IF battery <= BATTERY_CRITICAL THEN <<"CRITICAL: Battery low", battery>>
                ELSE <<"Running on battery", battery>>
      ELSE IF inputV <= INPUT_VOLTAGE_LOW_WARNING THEN <<"WARNING: Input voltage low">>
      ELSE IF inputV >= INPUT_VOLTAGE_HIGH_WARNING THEN <<"WARNING: Input voltage high">>
      ELSE <<"Normal">>

(***************************************************************************)
(* RadarSubsystem operations, as functions of the object                   *)
(***************************************************************************)
MAX_FAULT_HISTORY == 1000

\* The model keeps the newest MaxUnitHistory entries of m_faultHistory: the
\* trim loop drops from the front, so these are the same entries whatever
\* the cap, as long as the cap is not smaller.
HistoryKept == Min(MAX_FAULT_HISTORY, MaxUnitHistory)

RECURSIVE IndexOfCode(_, _, _)
IndexOfCode(faults, code, i) ==
  IF i > Len(faults) THEN 0
  ELSE IF faults[i].code = code THEN i
  ELSE IndexOfCode(faults, code, i + 1)

RemoveAt(seq, i) == SubSeq(seq, 1, i - 1) \o SubSeq(seq, i + 1, Len(seq))

\* A trim that drops the newest entries instead of the oldest
TrimToDroppingNewest(history, cap) == SubSeq(history, 1, Min(Len(history), cap))

\* while (size > cap) removeFirst() / pop_front()
RECURSIVE TrimTo(_, _)
TrimTo(history, cap) ==
  IF Len(history) > cap THEN TrimTo(Tail(history), cap) ELSE history

\* QTimer::singleShot(0, this, &RadarSubsystem::processHealthData)
PostProcessHealthData(s) == [s EXCEPT !.posted = @ + 1]

\* RadarSubsystem::addFault
AddFault(s, fault) ==
  IF IndexOfCode(s.m_activeFaults, fault.code, 1) # 0 THEN s
  ELSE PostProcessHealthData([s EXCEPT !.m_activeFaults = Append(@, fault)])

\* RadarSubsystem::clearFault
ClearFault(s, faultCode) ==
  LET i == IndexOfCode(s.m_activeFaults, faultCode, 1)
  IN  IF i = 0 THEN s
      ELSE PostProcessHealthData(
             [s EXCEPT !.m_activeFaults = RemoveAt(@, i),
                       !.m_faultHistory =
                          TrimTo(Append(@, [s.m_activeFaults[i] EXCEPT !.active = FALSE]),
                                 HistoryKept)])

\* RadarSubsystem::clearAllFaults
ClearAllFaults(s) ==
  LET count == Len(s.m_activeFaults)
      moved == [i \in 1..count |-> [s.m_activeFaults[i] EXCEPT !.active = FALSE]]
      t == [s EXCEPT !.m_activeFaults = <<>>,
                     !.m_faultHistory = TrimTo(@ \o moved, HistoryKept)]
  IN  IF count > 0 THEN PostProcessHealthData(t) ELSE t

\* RadarSubsystem::setEnabled
SetEnabled(s, enabled) ==
  IF s.m_enabled = enabled THEN s
  ELSE PostProcessHealthData([s EXCEPT !.m_enabled = enabled])

\* RadarSubsystem::reset
Reset(s) ==
  [s EXCEPT !.m_activeFaults = <<>>,
            !.m_healthState = "UNKNOWN",
            !.m_healthScore = SCORE_FULL,
            !.m_statusMessage = "",
            !.telemetry = InitializeTelemetryParameters(s.kind)]

\* processHealthData without the 0.1 noise floor on the score
ComputePassNoFloor(s) ==
  LET newState == ComputeHealthState(s)
      c == [s EXCEPT !.m_healthState = newState,
                     !.m_healthScore = ComputeHealthScore(s),
                     !.m_statusMessage = ComputeStatusMessage(s)]
      stateChanged == s.m_healthState # c.m_healthState
      scoreChanged == Abs(s.m_healthScore - c.m_healthScore) >= 0
      notify == stateChanged \/ scoreChanged
      immediate == notify /\ s.sinceHealthSignal >= SIGNAL_DEBOUNCE_MS
      deferred == notify /\ ~immediate
      handlers == stateChanged \/ immediate
  IN  [c EXCEPT !.sinceHealthSignal = IF immediate THEN 0 ELSE @,
                !.m_pendingHealthSignal = IF deferred THEN TRUE ELSE @,
                !.debounceLeft = IF deferred /\ @ = None THEN SIGNAL_DEBOUNCE_MS ELSE @,
                !.m_processingHealth = handlers,
                !.pc = IF handlers THEN "emit" ELSE @,
                !.passParity = 1 - @,
                !.lastTransition = stateChanged,
                !.lastNotify = IF immediate THEN "immediate"
                               ELSE IF deferred THEN "deferred" ELSE "none"]

\* The body of RadarSubsystem::processHealthData behind the guard, for the
\* base class: lock, compute, unlock, then the signals.  When a signal goes
\* out its directly connected handlers run before the function returns
\* (pc = "emit"); otherwise the function runs to its end at once.
ComputePass(s) ==
  LET newState == ComputeHealthState(s)
      c == [s EXCEPT !.m_healthState = newState,
                     !.m_healthScore = ComputeHealthScore(s),
                     !.m_statusMessage = ComputeStatusMessage(s)]
      stateChanged == s.m_healthState # c.m_healthState
      scoreChanged == Abs(s.m_healthScore - c.m_healthScore) > NOISE_FLOOR
      notify == stateChanged \/ scoreChanged
      immediate == notify /\ s.sinceHealthSignal >= SIGNAL_DEBOUNCE_MS
      deferred == notify /\ ~immediate
      handlers == stateChanged \/ immediate
  IN  [c EXCEPT !.sinceHealthSignal = IF immediate THEN 0 ELSE @,
                !.m_pendingHealthSignal = IF deferred THEN TRUE ELSE @,
                !.debounceLeft = IF deferred /\ @ = None THEN SIGNAL_DEBOUNCE_MS ELSE @,
                !.m_processingHealth = handlers,
                !.pc = IF handlers THEN "emit" ELSE @,
                !.passParity = 1 - @,
                !.lastTransition = stateChanged,
                !.lastNotify = IF immediate THEN "immediate"
                               ELSE IF deferred THEN "deferred" ELSE "none"]

\* A concrete subsystem's computeHealthState starts with isEnabled(), which
\* locks m_mutex, a non-recursive QMutex that processHealthData already
\* holds: the calling thread waits for itself.
SelfLock(s) ==
  [s EXCEPT !.m_processingHealth = TRUE, !.m_mutex = "held", !.pc = "deadlock"]

\* processHealthData whose guard returns without marking the request
ProcessHealthDataDropping(s) ==
  IF s.m_processingHealth
    THEN [s EXCEPT !.requests = @ + 1]
  ELSE IF s.kind = "Base" THEN ComputePass(s)
  ELSE SelfLock(s)

\* RadarSubsystem::processHealthData, called on the object's thread
ProcessHealthData(s) ==
  IF s.m_processingHealth
    THEN [s EXCEPT !.m_healthUpdatePending = TRUE, !.requests = @ + 1]
  ELSE IF s.kind = "Base" THEN ComputePass(s)
  ELSE SelfLock(s)

\* The end of processHealthData, after the handlers of its signals returned
FinishPass(s) ==
  LET t == [s EXCEPT !.m_processingHealth = FALSE,
                     !.m_healthUpdatePending = FALSE,
                     !.requests = 0,
                     !.pc = "idle"]
  IN  IF s.m_healthUpdatePending THEN PostProcessHealthData(t) ELSE t

\* PowerSupplySubsystem::onDataUpdate
OnDataUpdatePsu(s, data) ==
  LET has(p) == p \in DOMAIN data
      s1 == IF ~has("inputVoltage") THEN s
            ELSE IF data.inputVoltage <= INPUT_VOLTAGE_LOW_CRITICAL
                 THEN AddFault(s, FaultCode(FAULT_INPUT_LOW, CRITICAL))
                 ELSE ClearFault(s, FAULT_INPUT_LOW)
      s2 == IF ~has("inputVoltage") THEN s1
            ELSE IF data.inputVoltage >= INPUT_VOLTAGE_HIGH_CRITICAL
                 THEN AddFault(s1, FaultCode(FAULT_INPUT_HIGH, CRITICAL))
                 ELSE ClearFault(s1, FAULT_INPUT_HIGH)
      s3 == IF ~(has("batteryLevel") /\ has("onBattery")) THEN s2
            ELSE IF data.onBattery # 0 /\ data.batteryLevel <= BATTERY_CRITICAL
                 THEN AddFault(s2, FaultCode(FAULT_BATTERY_LOW, CRITICAL))
                 ELSE ClearFault(s2, FAULT_BATTERY_LOW)
  IN  IF ~has("temperature") THEN s3
      ELSE IF data.temperature >= TEMP_CRITICAL
           THEN AddFault(s3, FaultCode(FAULT_OVERTEMP, CRITICAL))
           ELSE ClearFault(s3, FAULT_OVERTEMP)

\* RadarSubsystem::onDataUpdate (virtual)
OnDataUpdate(s, data) ==
  IF s.kind = "PowerSupply" THEN OnDataUpdatePsu(s, data) ELSE s

\* The telemetryChanged debounce of RadarSubsystem::updateData
TelemetrySignal(s) ==
  IF s.sinceTelemetrySignal >= SIGNAL_DEBOUNCE_MS
    THEN [s EXCEPT !.sinceTelemetrySignal = 0]
    ELSE [s EXCEPT !.m_pendingTelemetrySignal = TRUE,
                   !.debounceLeft = IF @ = None THEN SIGNAL_DEBOUNCE_MS ELSE @]

\* RadarSubsystem::updateData
UpdateData(s, data) ==
  ProcessHealthData(
    TelemetrySignal(
      OnDataUpdate([s EXCEPT !.telemetry = SetValues(@, data)], data)))

\* The timeout lambda of m_signalDebounceTimer (constructor)
DebounceTimeout(s) ==
  [s EXCEPT !.debounceLeft = None,
            !.m_pendingHealthSignal = FALSE,
            !.sinceHealthSignal = IF s.m_pendingHealthSignal THEN 0 ELSE @,
            !.m_pendingTelemetrySignal = FALSE,
            !.sinceTelemetrySignal = IF s.m_pendingTelemetrySignal THEN 0 ELSE @]

\* TickMs milliseconds pass
Elapse(s) ==
  [s EXCEPT !.sinceHealthSignal = Min(SIGNAL_DEBOUNCE_MS, @ + TickMs),
            !.sinceTelemetrySignal = Min(SIGNAL_DEBOUNCE_MS, @ + TickMs),
            !.debounceLeft = IF @ = None THEN None ELSE Max(0, @ - TickMs)]

(***************************************************************************)
(* Components a specification does not exercise stay as constructed.       *)
(***************************************************************************)
Idle == [idle |-> TRUE]

(***************************************************************************)
(* One subsystem on its event-loop thread.  Calls come from outside while  *)
(* the loop is idle, or from a handler of stateTransition / healthChanged  *)
(* while processHealthData is emitting (pc = "emit").  Posted events and   *)
(* timers are delivered only by the idle loop.                             *)
(***************************************************************************)
\* Payloads of updateData for the power supply
PsuData ==
  {[inputVoltage |-> 170], [inputVoltage |-> 190], [inputVoltage |-> 220],
   [outputVoltage |-> 40], [temperature |-> 55], [temperature |-> 70],
   [batteryLevel |-> 5, onBattery |-> 1], [onBattery |-> 0]}

DataFor(kind) == IF kind = "PowerSupply" THEN PsuData ELSE {<<>>}

Callable == sub # Idle /\ sub.pc \in {"idle", "emit"}

Admissible(s) ==
  /\ s.posted <= MaxPosted
  /\ s.requests <= MaxRequests

InitObject ==
  /\ \E kind \in Kinds : sub = NewSubsystem(kind)
  /\ fm = Idle /\ ha = Idle /\ thd = Idle /\ thr = Idle /\ fn = Idle /\ now = 0 /\ ut = Idle /\ td = Idle /\ mgr = Idle /\ pl = Idle /\ ta = Idle

CallAddFault ==
  /\ Callable /\ sub.kind = "Base"
  /\ \E f \in BaseFaults : sub' = AddFault(sub, f)
  /\ Admissible(sub')
  /\ UNCHANGED <<fm, ha, thd, thr, fn, now, pl, ta, ut, td, mgr>>

CallClearFault ==
  /\ Callable
  /\ \E c \in Codes \cup {FAULT_INPUT_LOW, FAULT_OVERTEMP} : sub' = ClearFault(sub, c)
  /\ Admissible(sub')
  /\ UNCHANGED <<fm, ha, thd, thr, fn, now, pl, ta, ut, td, mgr>>

CallClearAllFaults ==
  /\ Callable
  /\ sub' = ClearAllFaults(sub)
  /\ Admissible(sub')
  /\ UNCHANGED <<fm, ha, thd, thr, fn, now, pl, ta, ut, td, mgr>>

CallSetEnabled ==
  /\ Callable
  /\ \E e \in BOOLEAN : sub' = SetEnabled(sub, e)
  /\ Admissible(sub')
  /\ UNCHANGED <<fm, ha, thd, thr, fn, now, pl, ta, ut, td, mgr>>

CallReset ==
  /\ Callable
  /\ sub' = Reset(sub)
  /\ UNCHANGED <<fm, ha, thd, thr, fn, now, pl, ta, ut, td, mgr>>

CallUpdateData ==
  /\ Callable
  /\ \E data \in DataFor(sub.kind) : sub' = UpdateData(sub, data)
  /\ Admissible(sub')
  /\ UNCHANGED <<fm, ha, thd, thr, fn, now, pl, ta, ut, td, mgr>>

\* processHealthData called directly (also onUpdate and runSelfTest)
CallProcessHealthData ==
  /\ Callable
  /\ sub' = ProcessHealthData(sub)
  /\ Admissible(sub')
  /\ UNCHANGED <<fm, ha, thd, thr, fn, now, pl, ta, ut, td, mgr>>

\* The event loop delivers a posted single-shot processHealthData
DispatchPosted ==
  /\ sub # Idle /\ sub.pc = "idle" /\ sub.posted > 0
  /\ sub' = ProcessHealthData([sub EXCEPT !.posted = @ - 1])
  /\ UNCHANGED <<fm, ha, thd, thr, fn, now, pl, ta, ut, td, mgr>>

\* processHealthData returns from its signal emissions
ReturnFromEmit ==
  /\ sub # Idle /\ sub.pc = "emit"
  /\ sub' = FinishPass(sub)
  /\ Admissible(sub')
  /\ UNCHANGED <<fm, ha, thd, thr, fn, now, pl, ta, ut, td, mgr>>

DebounceFires ==
  /\ sub # Idle /\ sub.pc = "idle" /\ sub.debounceLeft = 0
  /\ sub' = DebounceTimeout(sub)
  /\ UNCHANGED <<fm, ha, thd, thr, fn, now, pl, ta, ut, td, mgr>>

TimePasses ==
  /\ Callable
  /\ sub' = Elapse(sub)
  /\ UNCHANGED <<fm, ha, thd, thr, fn, now, pl, ta, ut, td, mgr>>

UnitStep ==
  \/ CallAddFault
  \/ CallClearFault
  \/ CallClearAllFaults
  \/ CallSetEnabled
  \/ CallReset
  \/ CallUpdateData
  \/ CallProcessHealthData
  \/ DispatchPosted
  \/ ReturnFromEmit
  \/ DebounceFires
  \/ TimePasses

(***************************************************************************)
(* The three compute functions of a unit as functions of its inputs        *)
(* (enabled flag, active faults, telemetry).  fn holds the inputs and the  *)
(* values the functions return for them; the inputs are written as         *)
(* updateData, addFault, clearFault and setEnabled write them.             *)
(***************************************************************************)
\* virtual computeHealthState / computeHealthScore / computeStatusMessage
ComputeHealthStateOf(s) ==
  IF s.kind = "PowerSupply" THEN ComputeHealthStatePsu(s) ELSE ComputeHealthState(s)

ComputeHealthScoreOf(s) ==
  IF s.kind = "PowerSupply" THEN ComputeHealthScorePsu(s) ELSE ComputeHealthScore(s)

ComputeStatusMessageOf(s) ==
  IF s.kind = "PowerSupply" THEN ComputeStatusMessagePsu(s) ELSE <<ComputeStatusMessage(s)>>

\* The object whose inputs fn holds
FnUnit(f) ==
  [NewSubsystem(f.kind) EXCEPT !.m_enabled = f.m_enabled,
                               !.m_activeFaults = f.m_activeFaults,
                               !.telemetry = f.telemetry]

Computed(s) ==
  [kind |-> s.kind,
   m_enabled |-> s.m_enabled,
   m_activeFaults |-> s.m_activeFaults,
   telemetry |-> s.telemetry,
   state |-> ComputeHealthStateOf(s),
   score |-> ComputeHealthScoreOf(s),
   message |-> ComputeStatusMessageOf(s)]

\* Payloads of updateData for the compute functions of the power supply
PsuInputs ==
  PsuData \cup
  {[inputVoltage |-> 200], [inputVoltage |-> 260], [inputVoltage |-> 280],
   [outputVoltage |-> 48],
   [temperature |-> 35], [batteryLevel |-> 20, onBattery |-> 1],
   [batteryLevel |-> 100, onBattery |-> 0]}

InitCompute ==
  /\ \E kind \in Kinds : fn = Computed(NewSubsystem(kind))
  /\ sub = Idle /\ fm = Idle /\ ha = Idle /\ thd = Idle /\ thr = Idle /\ now = 0 /\ ut = Idle /\ td = Idle /\ mgr = Idle /\ pl = Idle /\ ta = Idle

FnUpdateData ==
  /\ fn # Idle /\ fn.kind = "PowerSupply"
  /\ \E data \in PsuInputs :
       fn' = Computed(OnDataUpdate([FnUnit(fn) EXCEPT !.telemetry = SetValues(@, data)], data))
  /\ UNCHANGED <<sub, fm, ha, thd, thr, now, pl, ta, ut, td, mgr>>

FnAddFault ==
  /\ fn # Idle /\ fn.kind = "Base"
  /\ \E f \in BaseFaults : fn' = Computed(AddFault(FnUnit(fn), f))
  /\ UNCHANGED <<sub, fm, ha, thd, thr, now, pl, ta, ut, td, mgr>>

FnClearFault ==
  /\ fn # Idle
  /\ \E c \in Codes \cup {FAULT_INPUT_LOW, FAULT_OVERTEMP} :
       fn' = Computed(ClearFault(FnUnit(fn), c))
  /\ UNCHANGED <<sub, fm, ha, thd, thr, now, pl, ta, ut, td, mgr>>

FnSetEnabled ==
  /\ fn # Idle
  /\ \E e \in BOOLEAN : fn' = Computed(SetEnabled(FnUnit(fn), e))
  /\ UNCHANGED <<sub, fm, ha, thd, thr, now, pl, ta, ut, td, mgr>>

ComputeStep ==
  \/ FnUpdateData
  \/ FnAddFault
  \/ FnClearFault
  \/ FnSetEnabled

InitUnit == InitObject \/ InitCompute

NextUnit == UnitStep \/ ComputeStep

SpecUnit == InitUnit /\ [][NextUnit]_vars

(***************************************************************************)
(* FaultManager: src/src/core/FaultManager.cpp                             *)
(***************************************************************************)
MAX_HISTORY_SIZE == 10000
MS_PER_HOUR == 3600000

\* The model keeps the newest MaxFmHistory entries of the manager's
\* m_faultHistory: its capacity, scaled down so that registrations reach it.
FmHistoryKept == Min(MAX_HISTORY_SIZE, MaxFmHistory)

\* FaultManager::makeFaultKey
MakeFaultKey(subsystemId, faultCode) == subsystemId \o ":" \o faultCode

\* (subsystemId, code, severity) of the faults registered in the model; two
\* share their pair and two distinct pairs share their key.
FmFaults ==
  {<<"U1", "F1", WARNING>>, <<"U1", "F1", CRITICAL>>, <<"U2", "F1", FATAL>>,
   <<"U1", "F1:X", INFO>>, <<"U1:F1", "X", WARNING>>}
FmUnits == {f[1] : f \in FmFaults}
FmPairs == {<<f[1], f[2]>> : f \in FmFaults}

FmFault(f, t) ==
  [code |-> f[2], severity |-> f[3], subsystemId |-> f[1], timestamp |-> t, active |-> TRUE]

\* The manager after its constructor
NewFaultManager ==
  [m_activeFaults |-> <<>>,
   m_faultHistory |-> <<>>,
   m_subsystemLastFault |-> <<>>,
   m_subsystemFaultCounts |-> <<>>,
   emitted |-> <<>>,
   call |-> <<"new">>,
   turn |-> 0]

\* QMap: m[key] = value
Put(m, k, v) == [x \in DOMAIN m \cup {k} |-> IF x = k THEN v ELSE m[x]]
\* QMap::remove / take
Drop(m, ks) == [x \in DOMAIN m \ ks |-> m[x]]
\* QMap::value(key, default)
ValueOr(m, k, d) == IF k \in DOMAIN m THEN m[k] ELSE d

\* The registrations the manager has counted (m_subsystemFaultCounts)
RECURSIVE SumOver(_, _)
SumOver(m, keys) ==
  IF keys = {} THEN 0
  ELSE LET k == CHOOSE x \in keys : TRUE IN m[k] + SumOver(m, keys \ {k})

Registrations(m) == SumOver(m.m_subsystemFaultCounts, DOMAIN m.m_subsystemFaultCounts)

\* registerFault without its check of the active key
RegisterFaultUnchecked(m, fault) ==
  LET key == MakeFaultKey(fault.subsystemId, fault.code)
      critical == fault.severity \in {CRITICAL, FATAL}
  IN  [m EXCEPT
        !.m_activeFaults = Put(@, key, fault),
        !.m_faultHistory = TrimTo(Append(@, fault), FmHistoryKept),
        !.m_subsystemLastFault = Put(@, fault.subsystemId, fault.timestamp),
        !.m_subsystemFaultCounts =
           Put(@, fault.subsystemId, ValueOr(@, fault.subsystemId, 0) + 1),
        !.emitted =
           <<<<"faultRegistered", fault.subsystemId, fault.code>>, <<"faultsChanged">>>>
           \o (IF critical
                 THEN <<<<"criticalFaultOccurred", fault.subsystemId, fault.code>>>>
                 ELSE <<>>)]

\* registerFault raising criticalFaultOccurred from Warning upwards
RegisterFaultFromWarning(m, fault) ==
  LET key == MakeFaultKey(fault.subsystemId, fault.code)
      critical == fault.severity \in {WARNING, CRITICAL, FATAL}
  IN  IF key \in DOMAIN m.m_activeFaults
        THEN [m EXCEPT !.emitted = <<>>]
        ELSE [m EXCEPT
               !.m_activeFaults = Put(@, key, fault),
               !.m_faultHistory = TrimTo(Append(@, fault), FmHistoryKept),
               !.m_subsystemLastFault = Put(@, fault.subsystemId, fault.timestamp),
               !.m_subsystemFaultCounts =
                  Put(@, fault.subsystemId, ValueOr(@, fault.subsystemId, 0) + 1),
               !.emitted =
                  <<<<"faultRegistered", fault.subsystemId, fault.code>>, <<"faultsChanged">>>>
                  \o (IF critical
                        THEN <<<<"criticalFaultOccurred", fault.subsystemId, fault.code>>>>
                        ELSE <<>>)]

\* FaultManager::registerFault
RegisterFault(m, fault) ==
  LET key == MakeFaultKey(fault.subsystemId, fault.code)
      critical == fault.severity \in {CRITICAL, FATAL}
  IN  IF key \in DOMAIN m.m_activeFaults
        THEN [m EXCEPT !.emitted = <<>>]
        ELSE [m EXCEPT
               !.m_activeFaults = Put(@, key, fault),
               !.m_faultHistory = TrimTo(Append(@, fault), FmHistoryKept),
               !.m_subsystemLastFault = Put(@, fault.subsystemId, fault.timestamp),
               !.m_subsystemFaultCounts =
                  Put(@, fault.subsystemId, ValueOr(@, fault.subsystemId, 0) + 1),
               !.emitted =
                  <<<<"faultRegistered", fault.subsystemId, fault.code>>, <<"faultsChanged">>>>
                  \o (IF critical
                        THEN <<<<"criticalFaultOccurred", fault.subsystemId, fault.code>>>>
                        ELSE <<>>)]

\* FaultManager::clearFault(faultCode, subsystemId)
FmClearFault(m, faultCode, subsystemId) ==
  LET key == MakeFaultKey(subsystemId, faultCode)
  IN  IF key \in DOMAIN m.m_activeFaults
        THEN [m EXCEPT !.m_activeFaults = Drop(@, {key}),
                       !.emitted = <<<<"faultCleared", subsystemId, faultCode>>,
                                     <<"faultsChanged">>>>]
        ELSE [m EXCEPT !.emitted = <<>>]

\* The keys of a QMap in its iteration order (sorted): one step of the order
\* is enough here, the order of the events is not looked at.
RECURSIVE ClearedEvents(_, _)
ClearedEvents(active, keys) ==
  IF keys = {} THEN <<>>
  ELSE LET k == CHOOSE x \in keys : TRUE
       IN  <<<<"faultCleared", active[k].subsystemId, active[k].code>>>>
             \o ClearedEvents(active, keys \ {k})

\* FaultManager::clearAllFaults(subsystemId)
FmClearAllFaultsOf(m, subsystemId) ==
  LET keysToRemove == {k \in DOMAIN m.m_activeFaults :
                         m.m_activeFaults[k].subsystemId = subsystemId}
  IN  [m EXCEPT !.m_activeFaults = Drop(@, keysToRemove),
                !.emitted = ClearedEvents(m.m_activeFaults, keysToRemove)
                              \o (IF keysToRemove # {} THEN <<<<"faultsChanged">>>> ELSE <<>>)]

\* FaultManager::clearAllFaults()
FmClearAllFaults(m) ==
  IF DOMAIN m.m_activeFaults = {} THEN [m EXCEPT !.emitted = <<>>]
  ELSE [m EXCEPT !.m_activeFaults = <<>>,
                 !.emitted = ClearedEvents(m.m_activeFaults, DOMAIN m.m_activeFaults)
                               \o <<<<"faultsChanged">>>>]

\* The timestamps of a unit's faults in the history
HistoryTimes(m, subsystemId) ==
  {m.m_faultHistory[i].timestamp :
     i \in {j \in 1..Len(m.m_faultHistory) : m.m_faultHistory[j].subsystemId = subsystemId}}

Earliest(times) == CHOOSE t \in times : \A x \in times : t <= x
Latest(times) == CHOOSE t \in times : \A x \in times : t >= x

\* The value estimateMTBF returns is a quotient <<dividend, divisor>>;
\* return -1 is the quotient -1 / 1
NoEstimate == <<-1, 1>>

\* FaultManager::estimateMTBF: (totalTimeMs / 3600000.0) / (faultCount - 1)
EstimateMTBF(m, subsystemId) ==
  LET faultCount == ValueOr(m.m_subsystemFaultCounts, subsystemId, 0)
      times == HistoryTimes(m, subsystemId)
  IN  IF faultCount < 2 THEN NoEstimate
      ELSE IF times = {} THEN NoEstimate
      ELSE LET totalTimeMs == Latest(times) - Earliest(times)
           IN  IF totalTimeMs <= 0 THEN NoEstimate
               ELSE <<totalTimeMs, MS_PER_HOUR * (faultCount - 1)>>

(***************************************************************************)
(* HealthAnalytics fault records: src/src/analytics/HealthAnalytics.cpp    *)
(***************************************************************************)
NewHealthAnalytics == [m_faultHistory |-> <<>>, m_totalFaults |-> 0]

\* HealthAnalytics::onFaultOccurred
OnFaultOccurred(a, subsystemId, faultCode, t) ==
  LET record == [faultCode |-> faultCode, startTime |-> t, endTime |-> None,
                 durationMs |-> None, resolved |-> FALSE]
  IN  [a EXCEPT !.m_faultHistory =
                   Put(@, subsystemId, Append(ValueOr(@, subsystemId, <<>>), record)),
                !.m_totalFaults = @ + 1]

RECURSIVE LastUnresolved(_, _, _)
LastUnresolved(records, faultCode, i) ==
  IF i < 1 THEN 0
  ELSE IF records[i].faultCode = faultCode /\ ~records[i].resolved THEN i
  ELSE LastUnresolved(records, faultCode, i - 1)

\* HealthAnalytics::onFaultCleared (m_faultHistory[subsystemId] inserts an
\* empty list for an unknown subsystem)
OnFaultCleared(a, subsystemId, faultCode, t) ==
  LET records == ValueOr(a.m_faultHistory, subsystemId, <<>>)
      i == LastUnresolved(records, faultCode, Len(records))
      closed == IF i = 0 THEN records
                ELSE [records EXCEPT ![i] = [@ EXCEPT !.endTime = t,
                                                      !.durationMs = t - records[i].startTime,
                                                      !.resolved = TRUE]]
  IN  [a EXCEPT !.m_faultHistory = Put(@, subsystemId, closed)]

(***************************************************************************)
(* TrendAnalyzer: src/src/analytics/TrendAnalyzer.cpp                      *)
(* ta.m_data maps a unit to its parameters and a parameter to its series   *)
(* of points; ta.emitted are the signals of the last call, ta.added counts *)
(* the addDataPoint calls.  Values are integers, a mean is the pair        *)
(* <<sum, count>>.                                                         *)
(***************************************************************************)
m_maxDataPoints == 10000
m_anomalyThreshold == 3
MIN_ANOMALY_POINTS == 10

\* The model keeps the newest MaxDataPoints points of a series: the
\* capacity of a series, scaled down so that addDataPoint reaches it.
DataPointsKept == Min(m_maxDataPoints, MaxDataPoints)

NewTrendAnalyzer == [m_data |-> <<>>, emitted |-> <<>>, added |-> 0]

\* m_data[subsystemId][parameter] of a const analyzer
Series(a, subsystemId, parameter) ==
  ValueOr(ValueOr(a.m_data, subsystemId, <<>>), parameter, <<>>)

RECURSIVE SumValues(_, _)
SumValues(data, i) ==
  IF i > Len(data) THEN 0 ELSE data[i].value + SumValues(data, i + 1)

\* The sum of (n * x - sum)^2 over the series: n^2 times the sum of the
\* squared distances from the mean
RECURSIVE SumSquares(_, _, _)
SumSquares(data, sum, i) ==
  IF i > Len(data) THEN 0
  ELSE (Len(data) * data[i].value - sum) * (Len(data) * data[i].value - sum)
         + SumSquares(data, sum, i + 1)

\* TrendAnalyzer::isAnomaly: |z| > m_anomalyThreshold with
\* z = (value - mean) / stdDev and z = 0 for a stdDev of zero, that is
\* (n * value - sum)^2 * (n - 1) > threshold^2 * SumSquares
IsAnomaly(a, subsystemId, parameter, value) ==
  LET data == Series(a, subsystemId, parameter)
      n == Len(data)
      sum == SumValues(data, 1)
      d == n * value - sum
      sq == SumSquares(data, sum, 1)
  IN  /\ n >= MIN_ANOMALY_POINTS
      /\ sq > 0
      /\ d * d * (n - 1) > m_anomalyThreshold * m_anomalyThreshold * sq

\* TrendAnalyzer::addDataPoint
AddDataPoint(a, subsystemId, parameter, value, timestampMs) ==
  LET point == [value |-> value, timestampMs |-> timestampMs]
      data == TrimTo(Append(Series(a, subsystemId, parameter), point), DataPointsKept)
      b == [a EXCEPT !.m_data =
                        Put(@, subsystemId,
                            Put(ValueOr(@, subsystemId, <<>>), parameter, data)),
                     !.added = @ + 1]
  IN  [b EXCEPT !.emitted =
         IF IsAnomaly(b, subsystemId, parameter, value)
           THEN <<<<"anomalyDetected", subsystemId, parameter, value,
                    <<SumValues(data, 1), Len(data)>>>>>>
           ELSE <<>>]

\* TrendAnalyzer::clearData
ClearData(a, subsystemId) ==
  [a EXCEPT !.m_data = Drop(@, {subsystemId}), !.emitted = <<>>]

\* TrendAnalyzer::clearAllData
ClearAllData(a) == [a EXCEPT !.m_data = <<>>, !.emitted = <<>>]

RECURSIVE PopOlder(_, _)
PopOlder(data, cutoff) ==
  IF data # <<>> /\ Head(data).timestampMs < cutoff THEN PopOlder(Tail(data), cutoff)
  ELSE data

\* TrendAnalyzer::pruneOldData
PruneOldData(a, maxAgeHours, t) ==
  LET cutoff == t - maxAgeHours * MS_PER_HOUR
  IN  [a EXCEPT !.m_data = [u \in DOMAIN @ |->
                              [q \in DOMAIN @[u] |-> PopOlder(@[u][q], cutoff)]],
                !.emitted = <<>>]

(***************************************************************************)
(* The statistics of TrendAnalyzer.  The code computes in doubles; the     *)
(* model computes the same expressions exactly, on fractions <<p, q>> with *)
(* q > 0 in lowest terms.  A value of a point counts 1/VALUE_SCALE of the  *)
(* parameter's unit, a timestamp counts milliseconds from the first point  *)
(* of the series (slope, R-squared and the prediction do not depend on the *)
(* origin of the time axis).  Where the code takes a square root the model *)
(* compares or keeps the square.                                           *)
(***************************************************************************)
VALUE_SCALE == 2
m_windowSize == 100
MIN_TREND_POINTS == 3
PREDICT_AHEAD_MS == 10000
m_trendThreshold == <<1, 1000>>
VOLATILE_CV == <<1, 5>>
ANOMALY_SCORE_DIVISOR == 5

RECURSIVE GCD(_, _)
GCD(a, b) == IF b = 0 THEN a ELSE GCD(b, a % b)

\* The fraction p / q in lowest terms
Q(p, q) ==
  LET g == GCD(Abs(p), Abs(q))
      s == IF q < 0 THEN -1 ELSE 1
  IN  <<(s * p) \div g, (s * q) \div g>>

Whole(i) == <<i, 1>>
\* Sums over the common denominator and products after cancelling, to
\* keep the intermediate integers small
QAdd(a, b) ==
  LET g == GCD(a[2], b[2])
  IN  Q(a[1] * (b[2] \div g) + b[1] * (a[2] \div g), (a[2] \div g) * b[2])
QSub(a, b) == QAdd(a, <<-b[1], b[2]>>)
QMul(a, b) ==
  LET g == GCD(Abs(a[1]), b[2])
      h == GCD(Abs(b[1]), a[2])
  IN  Q((a[1] \div g) * (b[1] \div h), (a[2] \div h) * (b[2] \div g))
QDiv(a, b) == QMul(a, IF b[1] < 0 THEN <<-b[2], -b[1]>> ELSE <<b[2], b[1]>>)
QLess(a, b) == QSub(a, b)[1] < 0
QAbs(a) == <<Abs(a[1]), a[2]>>
QSquare(a) == QMul(a, a)
QMin(a, b) == IF QLess(a, b) THEN a ELSE b

\* The sum of term(point) over the points data[lo] .. data[hi], added up
\* by halves
RECURSIVE SumOfPoints(_, _, _, _)
SumOfPoints(data, term(_), lo, hi) ==
  IF lo > hi THEN Whole(0)
  ELSE IF lo = hi THEN term(data[lo])
  ELSE LET mid == (lo + hi) \div 2
       IN  QAdd(SumOfPoints(data, term, lo, mid),
                SumOfPoints(data, term, mid + 1, hi))

PointX(point) == Whole(point.timestampMs)
PointY(point) == Whole(point.value)
PointXY(point) == Whole(point.timestampMs * point.value)
PointX2(point) == Whole(point.timestampMs * point.timestampMs)

\* computeLinearRegression: n, sumX, sumY, sumXY and sumX2 of its first loop
RegressionSums(data) ==
  [n |-> Whole(Len(data)),
   x |-> SumOfPoints(data, PointX, 1, Len(data)),
   y |-> SumOfPoints(data, PointY, 1, Len(data)),
   xy |-> SumOfPoints(data, PointXY, 1, Len(data)),
   x2 |-> SumOfPoints(data, PointX2, 1, Len(data))]

\* computeLinearRegression: slope and intercept
FitLine(s, denom) ==
  LET slope == QDiv(QSub(QMul(s.n, s.xy), QMul(s.x, s.y)), denom)
  IN  [slope |-> slope, intercept |-> QDiv(QSub(s.y, QMul(slope, s.x)), s.n)]

\* computeLinearRegression: its second loop and rSquared
RSquared(data, line, meanY) ==
  LET Res(point) ==
        QSquare(QSub(PointY(point),
                     QAdd(QMul(line.slope, PointX(point)), line.intercept)))
      Tot(point) == QSquare(QSub(PointY(point), meanY))
      ssRes == SumOfPoints(data, Res, 1, Len(data))
      ssTot == SumOfPoints(data, Tot, 1, Len(data))
  IN  IF QLess(Whole(0), ssTot) THEN QSub(Whole(1), QDiv(ssRes, ssTot))
      ELSE Whole(0)

RegressionOf(data, s, line) ==
  [slope |-> line.slope, intercept |-> line.intercept,
   rSquared |-> RSquared(data, line, QDiv(s.y, s.n))]

RegressionFrom(data, s, denom) ==
  IF denom = Whole(0)
    THEN [slope |-> Whole(0), intercept |-> QDiv(s.y, s.n), rSquared |-> Whole(0)]
  ELSE RegressionOf(data, s, FitLine(s, denom))

RegressionWith(data, s) ==
  RegressionFrom(data, s, QSub(QMul(s.n, s.x2), QMul(s.x, s.x)))

\* TrendAnalyzer::computeLinearRegression
ComputeLinearRegression(data) ==
  IF Len(data) < 2
    THEN [slope |-> Whole(0), intercept |-> Whole(0), rSquared |-> Whole(0)]
  ELSE RegressionWith(data, RegressionSums(data))

\* TrendAnalyzer::computeMean
ComputeMean(data) ==
  IF data = <<>> THEN Whole(0) ELSE Q(SumValues(data, 1), Len(data))

\* The square of TrendAnalyzer::computeStdDev
ComputeVariance(data, mean) ==
  LET Sq(point) == QSquare(QSub(Whole(point.value), mean))
  IN  IF Len(data) < 2 THEN Whole(0)
      ELSE QDiv(SumOfPoints(data, Sq, 1, Len(data)), Whole(Len(data) - 1))

\* The square of TrendAnalyzer::computeZScore
ComputeZScoreSquared(value, mean, variance) ==
  IF variance = Whole(0) THEN Whole(0)
  ELSE QDiv(QSquare(QSub(Whole(value), mean)), variance)

\* The trailing window of analyzeTrend and predictValue
Window(data) ==
  SubSeq(data, IF Len(data) > m_windowSize THEN Len(data) - m_windowSize + 1 ELSE 1,
         Len(data))

\* TrendResult()
NewTrendResult ==
  [direction |-> "Stable", slope |-> Whole(0), rSquared |-> Whole(0),
   currentValue |-> 0, predictedValue |-> Whole(0),
   anomalyScoreSquared |-> Whole(0)]

\* The direction analyzeTrend derives from the slope per millisecond (in
\* the parameter's unit) and from stdDev / |mean| of the window
Direction(slope, mean, variance) ==
  IF QLess(QMul(QSquare(VOLATILE_CV), QSquare(mean)), variance) THEN "Volatile"
  ELSE IF QLess(QAbs(QDiv(slope, Whole(VALUE_SCALE))), m_trendThreshold)
    THEN "Stable"
  ELSE IF QLess(Whole(0), slope) THEN "Increasing"
  ELSE "Decreasing"

\* TrendAnalyzer::analyzeTrend
AnalyzeTrend(a, subsystemId, parameter) ==
  LET data == Series(a, subsystemId, parameter)
      window == Window(data)
      fit == ComputeLinearRegression(window)
      last == data[Len(data)]
      mean == ComputeMean(window)
      variance == ComputeVariance(window, mean)
  IN  IF Len(data) < MIN_TREND_POINTS THEN NewTrendResult
      ELSE [direction |-> Direction(fit.slope, mean, variance),
            slope |-> fit.slope,
            rSquared |-> fit.rSquared,
            currentValue |-> last.value,
            predictedValue |->
              QAdd(QMul(fit.slope, Whole(last.timestampMs + PREDICT_AHEAD_MS)),
                   fit.intercept),
            anomalyScoreSquared |->
              QMin(Whole(1),
                   QDiv(ComputeZScoreSquared(last.value, mean, variance),
                        Whole(ANOMALY_SCORE_DIVISOR * ANOMALY_SCORE_DIVISOR)))]

\* TrendAnalyzer::predictValue
PredictValue(a, subsystemId, parameter, secondsAhead) ==
  LET data == Series(a, subsystemId, parameter)
      fit == ComputeLinearRegression(Window(data))
      last == data[Len(data)]
  IN  IF data = <<>> THEN Whole(0)
      ELSE IF Len(data) < MIN_TREND_POINTS THEN Whole(last.value)
      ELSE QAdd(QMul(fit.slope, Whole(last.timestampMs + secondsAhead * 1000)),
                fit.intercept)

\* TrendAnalyzer::getDataPoints
GetDataPoints(a, subsystemId, parameter, maxPoints) ==
  LET data == Series(a, subsystemId, parameter)
  IN  SubSeq(data, IF Len(data) > maxPoints THEN Len(data) - maxPoints + 1 ELSE 1,
             Len(data))

(***************************************************************************)
(* The fault ledgers.  A unit's own fault list, the manager-wide           *)
(* FaultManager, the fault records of HealthAnalytics and the series of    *)
(* TrendAnalyzer do not read each other: each is driven through its public *)
(* calls (a unit's queued faultOccurred / faultCleared signals can do no   *)
(* more than call them), so a behaviour of this specification exercises    *)
(* one of the four.                                                        *)
(* fm.call is the last call made on the manager, fm.turn flips with every  *)
(* call, fm.emitted are the signals that call emitted.                     *)
(***************************************************************************)
InitLedger ==
  /\ \/ (\E kind \in Kinds : sub = NewSubsystem(kind)) /\ fm = Idle /\ ha = Idle /\ ta = Idle
     \/ sub = Idle /\ fm = NewFaultManager /\ ha = Idle /\ ta = Idle
     \/ sub = Idle /\ fm = Idle /\ ha = NewHealthAnalytics /\ ta = Idle
     \/ sub = Idle /\ fm = Idle /\ ha = Idle /\ ta = NewTrendAnalyzer
  /\ thd = Idle /\ thr = Idle /\ fn = Idle /\ now = 0 /\ ut = Idle /\ td = Idle /\ mgr = Idle /\ pl = Idle

Called(m, call) == [m EXCEPT !.call = call, !.turn = 1 - @]

FmRegisterFault ==
  /\ fm # Idle
  /\ \E f \in FmFaults :
       fm' = Called(RegisterFault(fm, FmFault(f, now)), <<"registerFault", f[1], f[2]>>)
  /\ Registrations(fm') <= MaxRegistrations
  /\ UNCHANGED <<sub, ha, thd, thr, fn, now, pl, ta, ut, td, mgr>>

FmCallClearFault ==
  /\ fm # Idle
  /\ \E p \in FmPairs :
       fm' = Called(FmClearFault(fm, p[2], p[1]), <<"clearFault", p[1], p[2]>>)
  /\ UNCHANGED <<sub, ha, thd, thr, fn, now, pl, ta, ut, td, mgr>>

FmCallClearAllFaultsOf ==
  /\ fm # Idle
  /\ \E u \in FmUnits :
       fm' = Called(FmClearAllFaultsOf(fm, u), <<"clearAllFaults", u>>)
  /\ UNCHANGED <<sub, ha, thd, thr, fn, now, pl, ta, ut, td, mgr>>

FmCallClearAllFaults ==
  /\ fm # Idle
  /\ fm' = Called(FmClearAllFaults(fm), <<"clearAllFaults">>)
  /\ UNCHANGED <<sub, ha, thd, thr, fn, now, pl, ta, ut, td, mgr>>

\* estimateMTBF is a query: the call records the value it returned
FmCallEstimateMTBF ==
  /\ fm # Idle
  /\ \E u \in FmUnits :
       fm' = Called([fm EXCEPT !.emitted = <<>>], <<"estimateMTBF", u, EstimateMTBF(fm, u)>>)
  /\ UNCHANGED <<sub, ha, thd, thr, fn, now, pl, ta, ut, td, mgr>>

HaFaultOccurred ==
  /\ ha # Idle /\ ha.m_totalFaults < MaxRegistrations
  /\ \E p \in FmPairs : ha' = OnFaultOccurred(ha, p[1], p[2], now)
  /\ UNCHANGED <<sub, fm, thd, thr, fn, now, pl, ta, ut, td, mgr>>

HaFaultCleared ==
  /\ ha # Idle
  /\ \E p \in FmPairs : ha' = OnFaultCleared(ha, p[1], p[2], now)
  /\ UNCHANGED <<sub, fm, thd, thr, fn, now, pl, ta, ut, td, mgr>>

\* The units, parameters, values and ages passed to the analyzer
TaUnits == {"U1", "U2"}
TaParameters == {"temperature", "voltage"}
TaValues == {10, 20}
TaAges == {0, 1}

TaAddDataPoint ==
  /\ ta # Idle /\ ta.added < MaxAdded
  /\ \E u \in TaUnits, q \in TaParameters, v \in TaValues :
       ta' = AddDataPoint(ta, u, q, v, now)
  /\ UNCHANGED <<sub, fm, ha, thd, thr, fn, now, pl, ut, td, mgr>>

TaClearData ==
  /\ ta # Idle
  /\ \E u \in TaUnits : ta' = ClearData(ta, u)
  /\ UNCHANGED <<sub, fm, ha, thd, thr, fn, now, pl, ut, td, mgr>>

TaClearAllData ==
  /\ ta # Idle
  /\ ta' = ClearAllData(ta)
  /\ UNCHANGED <<sub, fm, ha, thd, thr, fn, now, pl, ut, td, mgr>>

TaPruneOldData ==
  /\ ta # Idle
  /\ \E h \in TaAges : ta' = PruneOldData(ta, h, now)
  /\ UNCHANGED <<sub, fm, ha, thd, thr, fn, now, pl, ut, td, mgr>>

\* The wall clock of the ledgers' timestamps
LedgerTick ==
  /\ sub = Idle /\ now + TickMs <= MaxLedgerTime
  /\ now' = now + TickMs
  /\ UNCHANGED <<sub, fm, ha, thd, thr, fn, pl, ta, ut, td, mgr>>

NextLedger ==
  \/ UnitStep
  \/ FmRegisterFault
  \/ FmCallClearFault
  \/ FmCallClearAllFaultsOf
  \/ FmCallClearAllFaults
  \/ FmCallEstimateMTBF
  \/ HaFaultOccurred
  \/ HaFaultCleared
  \/ TaAddDataPoint
  \/ TaClearData
  \/ TaClearAllData
  \/ TaPruneOldData
  \/ LedgerTick

SpecLedger == InitLedger /\ [][NextLedger]_vars

(***************************************************************************)
(* analyzeTrend and isAnomaly applied to an analyzer that has been fed one *)
(* series (SpecTrend).  fn records the query and what it returned.         *)
(***************************************************************************)
TrUnit == "U1"
TrParameter == "temperature"

\* count points, period milliseconds apart, the i-th with the value at(i)
SeriesOf(count, period, at(_)) ==
  [i \in 1..count |-> [value |-> at(i), timestampMs |-> period * (i - 1)]]

\* value = base + perSecond * secondsElapsed, one point per second
LinearSeries(count, base, perSecond) ==
  LET at(i) == base + perSecond * (i - 1) IN SeriesOf(count, 1000, at)

\* One point per second, each one of the values around a mean
NoiseSeries(count, values) ==
  {[i \in 1..count |-> [value |-> w[i], timestampMs |-> 1000 * (i - 1)]] :
     w \in [1..count -> values]}

\* A burst of points one millisecond apart that repeats a pattern of values
BurstSeries(count, pattern) ==
  LET at(i) == pattern[((i - 1) % Len(pattern)) + 1] IN SeriesOf(count, 1, at)

\* Mean 50 and standard deviation 2 over ten points
Mean50Dev2 ==
  <<53, 47, 52, 48, 52, 48, 51, 49, 50, 50>>

Scaled(pattern) == [i \in DOMAIN pattern |-> VALUE_SCALE * pattern[i]]

TrLinear ==
  {LinearSeries(count, 10 * VALUE_SCALE, perSecond) :
     count \in 2..MaxTrendPoints, perSecond \in {-2, -1, 0, 1, 2, 4}}

TrNoise ==
  UNION {NoiseSeries(count, {50 * VALUE_SCALE - 1, 50 * VALUE_SCALE,
                             50 * VALUE_SCALE + 1}) : count \in 3..4}

TrBursts ==
  {BurstSeries(count, pattern) :
     count \in (MIN_ANOMALY_POINTS - 1)..(MIN_ANOMALY_POINTS + MaxExtraPoints),
     pattern \in {Scaled(Mean50Dev2), Scaled(<<50>>), Scaled(<<49, 51>>)}}

TrValues == {VALUE_SCALE * v : v \in {43, 44, 50, 51, 56, 57, 65}}

InitTrend ==
  /\ \E data \in TrLinear \cup TrNoise \cup TrBursts :
       ta = [NewTrendAnalyzer EXCEPT
               !.m_data = Put(<<>>, TrUnit, Put(<<>>, TrParameter, data))]
  /\ fn = [op |-> "none"]
  /\ sub = Idle /\ fm = Idle /\ ha = Idle /\ thd = Idle /\ thr = Idle /\ now = 0
  /\ pl = Idle /\ ut = Idle /\ td = Idle /\ mgr = Idle

TrAnalyzeTrend ==
  /\ ta # Idle /\ fn # Idle
  /\ fn' = [op |-> "analyzeTrend",
            result |-> AnalyzeTrend(ta, TrUnit, TrParameter)]
  /\ UNCHANGED <<sub, fm, ha, thd, thr, now, pl, ta, ut, td, mgr>>

TrIsAnomaly ==
  /\ ta # Idle /\ fn # Idle
  /\ \E value \in TrValues :
       fn' = [op |-> "isAnomaly", value |-> value,
              result |-> IsAnomaly(ta, TrUnit, TrParameter, value)]
  /\ UNCHANGED <<sub, fm, ha, thd, thr, now, pl, ta, ut, td, mgr>>

TrPredictValue ==
  /\ ta # Idle /\ fn # Idle
  /\ \E secondsAhead \in {0, 10} :
       fn' = [op |-> "predictValue", secondsAhead |-> secondsAhead,
              result |-> PredictValue(ta, TrUnit, TrParameter, secondsAhead)]
  /\ UNCHANGED <<sub, fm, ha, thd, thr, now, pl, ta, ut, td, mgr>>

NextTrend ==
  \/ TrAnalyzeTrend
  \/ TrIsAnomaly
  \/ TrPredictValue

SpecTrend == InitTrend /\ [][NextTrend]_vars

(***************************************************************************)
(* UptimeTracker: src/src/analytics/UptimeTracker.cpp                      *)
(* ut.m_records maps a unit to its UptimeRecord, ut.m_history are the      *)
(* snapshots tick takes; ut.call is the last call with the value it        *)
(* returned, ut.emitted the signals it emitted; ut.calls counts the calls  *)
(* that are no queries.                                                    *)
(* An availability is the quotient <<dividend, divisor>>.                  *)
(***************************************************************************)
m_snapshotIntervalMs == 60000
TICK_MS == 1000
HISTORY_KEPT_MS == 86400000

\* QDateTime::currentMSecsSinceEpoch() when the tracker is constructed; the
\* clock of the model counts from there
TrackerStartMs == m_snapshotIntervalMs

NewUptimeTracker ==
  [m_records |-> <<>>,
   m_history |-> <<>>,
   m_lastSnapshotTime |-> 0,
   m_trackingStartTime |-> 0,
   emitted |-> <<>>,
   open |-> {},
   call |-> <<"new">>,
   calls |-> 0]

\* UptimeTracker::registerSubsystem
RegisterSubsystem(t, subsystemId, time) ==
  IF subsystemId \in DOMAIN t.m_records THEN t
  ELSE [t EXCEPT !.m_records =
          Put(@, subsystemId,
              [startTime |-> time, totalUptimeMs |-> 0, totalDowntimeMs |-> 0,
               currentState |-> "UNKNOWN", lastStateChange |-> time,
               stateTransitions |-> 0])]

\* UptimeTracker::unregisterSubsystem
UnregisterSubsystem(t, subsystemId) == [t EXCEPT !.m_records = Drop(@, {subsystemId})]

\* updateState that credits the time in state Fail to the uptime
UpdateStateCreditingFail(t, subsystemId, state, time) ==
  LET r == RegisterSubsystem(t, subsystemId, time)
      record == r.m_records[subsystemId]
      durationMs == time - record.lastStateChange
      up == record.currentState \in {"OK", "DEGRADED", "FAIL"}
  IN  IF record.currentState = state THEN r
      ELSE [r EXCEPT
             !.m_records[subsystemId] =
                [record EXCEPT !.totalUptimeMs = IF up THEN @ + durationMs ELSE @,
                               !.currentState = state,
                               !.lastStateChange = time,
                               !.stateTransitions = @ + 1],
             !.emitted =
                (IF state = "FAIL" THEN <<<<"outageStarted", subsystemId>>>> ELSE <<>>)
                \o <<<<"stateChanged", subsystemId, record.currentState, state>>,
                     <<"uptimeUpdated">>>>]

\* UptimeTracker::updateState
UpdateState(t, subsystemId, state, time) ==
  LET r == RegisterSubsystem(t, subsystemId, time)
      record == r.m_records[subsystemId]
      durationMs == time - record.lastStateChange
      up == record.currentState \in {"OK", "DEGRADED"}
      down == record.currentState = "FAIL"
  IN  IF record.currentState = state THEN r
      ELSE [r EXCEPT
             !.m_records[subsystemId] =
                [record EXCEPT !.totalUptimeMs = IF up THEN @ + durationMs ELSE @,
                               !.totalDowntimeMs = IF down THEN @ + durationMs ELSE @,
                               !.currentState = state,
                               !.lastStateChange = time,
                               !.stateTransitions = @ + 1],
             !.emitted =
                (IF down THEN <<<<"outageEnded", subsystemId, durationMs>>>> ELSE <<>>)
                \o (IF state = "FAIL" THEN <<<<"outageStarted", subsystemId>>>> ELSE <<>>)
                \o <<<<"stateChanged", subsystemId, record.currentState, state>>,
                     <<"uptimeUpdated">>>>]

\* UptimeTracker::recordOutage
RecordOutage(t, subsystemId, durationMs) ==
  IF subsystemId \notin DOMAIN t.m_records THEN t
  ELSE [t EXCEPT !.m_records[subsystemId].totalDowntimeMs = @ + durationMs,
                 !.emitted = <<<<"uptimeUpdated">>>>]

\* getAvailability with the downtime as dividend
GetAvailabilityOfDowntime(record) ==
  LET total == record.totalUptimeMs + record.totalDowntimeMs
  IN  IF total > 0 THEN <<record.totalDowntimeMs * 100, total>> ELSE <<100, 1>>

\* UptimeRecord::getAvailability: (double)totalUptimeMs / total * 100.0
GetAvailability(record) ==
  LET total == record.totalUptimeMs + record.totalDowntimeMs
  IN  IF total > 0 THEN <<record.totalUptimeMs * 100, total>> ELSE <<100, 1>>

RECURSIVE SumField(_, _, _)
SumField(records, field, keys) ==
  IF keys = {} THEN 0
  ELSE LET k == CHOOSE x \in keys : TRUE
       IN  records[k][field] + SumField(records, field, keys \ {k})

\* UptimeTracker::getSystemAvailability
GetSystemAvailability(t) ==
  LET totalUp == SumField(t.m_records, "totalUptimeMs", DOMAIN t.m_records)
      totalDown == SumField(t.m_records, "totalDowntimeMs", DOMAIN t.m_records)
      total == totalUp + totalDown
  IN  IF total > 0 THEN <<totalUp * 100, total>> ELSE <<100, 1>>

\* UptimeTracker::getSubsystemAvailability
GetSubsystemAvailability(t, subsystemId) ==
  IF subsystemId \notin DOMAIN t.m_records THEN <<100, 1>>
  ELSE GetAvailability(t.m_records[subsystemId])

\* UptimeTracker::getSubsystemUptime (hours: milliseconds over 3600000)
GetSubsystemUptime(t, subsystemId) ==
  IF subsystemId \notin DOMAIN t.m_records THEN <<0, 1>>
  ELSE <<t.m_records[subsystemId].totalUptimeMs, MS_PER_HOUR>>

\* UptimeTracker::getSubsystemDowntimeMs
GetSubsystemDowntimeMs(t, subsystemId) ==
  IF subsystemId \notin DOMAIN t.m_records THEN 0
  ELSE t.m_records[subsystemId].totalDowntimeMs

\* UptimeTracker::getStateTransitions
GetStateTransitions(t, subsystemId) ==
  IF subsystemId \notin DOMAIN t.m_records THEN 0
  ELSE t.m_records[subsystemId].stateTransitions

\* UptimeTracker::updateRunningTotals
UpdateRunningTotals(t) ==
  [t EXCEPT !.m_records =
     [u \in DOMAIN t.m_records |->
        LET record == t.m_records[u]
        IN  IF record.currentState \in {"OK", "DEGRADED"}
              THEN [record EXCEPT !.totalUptimeMs = @ + TICK_MS]
            ELSE IF record.currentState = "FAIL"
              THEN [record EXCEPT !.totalDowntimeMs = @ + TICK_MS]
            ELSE record]]

RECURSIVE PopOlderSnapshots(_, _)
PopOlderSnapshots(history, cutoff) ==
  IF history # <<>> /\ Head(history).timestamp < cutoff
    THEN PopOlderSnapshots(Tail(history), cutoff)
    ELSE history

\* UptimeTracker::tick
Tick(t, time) ==
  LET r == UpdateRunningTotals(t)
      epochMs == TrackerStartMs + time
      snapshot == [timestamp |-> time,
                   systemAvailability |-> GetSystemAvailability(r),
                   subsystemAvailability |->
                      [u \in DOMAIN r.m_records |-> GetAvailability(r.m_records[u])]]
  IN  IF epochMs - r.m_lastSnapshotTime >= m_snapshotIntervalMs
        THEN [r EXCEPT !.m_history = PopOlderSnapshots(Append(@, snapshot), time - HISTORY_KEPT_MS),
                       !.m_lastSnapshotTime = epochMs]
        ELSE r

\* The reset of one record (reset and resetSubsystem)
ResetRecord(record, time) ==
  [record EXCEPT !.totalUptimeMs = 0, !.totalDowntimeMs = 0, !.startTime = time,
                 !.lastStateChange = time, !.stateTransitions = 0]

\* UptimeTracker::reset
UptimeReset(t, time) ==
  [t EXCEPT !.m_records = [u \in DOMAIN @ |-> ResetRecord(@[u], time)],
            !.m_history = <<>>,
            !.m_trackingStartTime = time,
            !.m_lastSnapshotTime = 0,
            !.emitted = <<<<"uptimeUpdated">>>>]

\* UptimeTracker::resetSubsystem
ResetSubsystem(t, subsystemId, time) ==
  IF subsystemId \notin DOMAIN t.m_records THEN t
  ELSE [t EXCEPT !.m_records[subsystemId] = ResetRecord(@, time),
                 !.emitted = <<<<"uptimeUpdated">>>>]

(***************************************************************************)
(* The tracker driven through its public calls under a clock that advances *)
(* in steps of ClockStepMs.                                                *)
(***************************************************************************)
ClockStepMs == 500
UtUnits == {"U1", "U2"}
OutageDurations == {ClockStepMs}

InitUptime ==
  /\ ut = NewUptimeTracker
  /\ sub = Idle /\ fm = Idle /\ ha = Idle /\ thd = Idle /\ thr = Idle /\ fn = Idle
  /\ pl = Idle /\ ta = Idle /\ td = Idle /\ mgr = Idle /\ now = 0

\* The units whose last outage signal is outageStarted, as a receiver of the
\* signals sees them (one call emits at most one outage signal per unit)
OpenAfter(open, emitted) ==
  LET of(name) == {emitted[i][2] : i \in {j \in DOMAIN emitted : emitted[j][1] = name}}
  IN  (open \ of("outageEnded")) \cup of("outageStarted")

\* A call on the tracker: the signals of the call before it are gone
UtCalled(t, call) ==
  [t EXCEPT !.call = call, !.calls = @ + 1, !.open = OpenAfter(@, t.emitted)]
UtEntered == [ut EXCEPT !.emitted = <<>>]
UtCallable == ut # Idle /\ ut.calls < MaxUtCalls

UtRegisterSubsystem ==
  /\ UtCallable
  /\ \E u \in UtUnits :
       ut' = UtCalled(RegisterSubsystem(UtEntered, u, now), <<"registerSubsystem", u>>)
  /\ UNCHANGED <<sub, fm, ha, thd, thr, fn, now, pl, ta, td, mgr>>

UtUnregisterSubsystem ==
  /\ UtCallable
  /\ \E u \in UtUnits :
       ut' = UtCalled(UnregisterSubsystem(UtEntered, u), <<"unregisterSubsystem", u>>)
  /\ UNCHANGED <<sub, fm, ha, thd, thr, fn, now, pl, ta, td, mgr>>

UtUpdateState ==
  /\ UtCallable
  /\ \E u \in UtUnits, state \in HealthState :
       ut' = UtCalled(UpdateState(UtEntered, u, state, now), <<"updateState", u, state>>)
  /\ UNCHANGED <<sub, fm, ha, thd, thr, fn, now, pl, ta, td, mgr>>

UtRecordOutage ==
  /\ UtCallable
  /\ \E u \in UtUnits, d \in OutageDurations :
       ut' = UtCalled(RecordOutage(UtEntered, u, d),
                      <<"recordOutage", u, d>>)
  /\ UNCHANGED <<sub, fm, ha, thd, thr, fn, now, pl, ta, td, mgr>>

UtTick ==
  /\ UtCallable
  /\ ut' = UtCalled(Tick(UtEntered, now), <<"tick">>)
  /\ UNCHANGED <<sub, fm, ha, thd, thr, fn, now, pl, ta, td, mgr>>

UtReset ==
  /\ UtCallable
  /\ ut' = UtCalled(UptimeReset(UtEntered, now), <<"reset">>)
  /\ UNCHANGED <<sub, fm, ha, thd, thr, fn, now, pl, ta, td, mgr>>

UtResetSubsystem ==
  /\ UtCallable
  /\ \E u \in UtUnits :
       ut' = UtCalled(ResetSubsystem(UtEntered, u, now), <<"resetSubsystem", u>>)
  /\ UNCHANGED <<sub, fm, ha, thd, thr, fn, now, pl, ta, td, mgr>>

\* The getters of the tracker: the call records the value returned
UtQuery ==
  /\ ut # Idle
  /\ \/ \E u \in UtUnits :
          ut' = [UtEntered EXCEPT !.call = <<"getSubsystemAvailability", u,
                                             GetSubsystemAvailability(ut, u)>>]
     \/ ut' = [UtEntered EXCEPT !.call = <<"getSystemAvailability", GetSystemAvailability(ut)>>]
  /\ UNCHANGED <<sub, fm, ha, thd, thr, fn, now, pl, ta, td, mgr>>

UptimeClock ==
  /\ ut # Idle /\ now + ClockStepMs <= MaxClockSteps * ClockStepMs
  /\ now' = now + ClockStepMs
  /\ UNCHANGED <<sub, fm, ha, thd, thr, fn, pl, ta, ut, td, mgr>>

NextUptime ==
  \/ UtRegisterSubsystem
  \/ UtUnregisterSubsystem
  \/ UtUpdateState
  \/ UtRecordOutage
  \/ UtTick
  \/ UtReset
  \/ UtResetSubsystem
  \/ UtQuery
  \/ UptimeClock

SpecUptime == InitUptime /\ [][NextUptime]_vars

(***************************************************************************)
(* The throttle of SubsystemManager: src/src/core/SubsystemManager.cpp     *)
(* thr.timerLeft is the time left on m_throttleTimer (None: not active),   *)
(* thr.armedWith the interval it was last started with.  Ghost fields:     *)
(* windowCalls counts the scheduleHealthUpdate calls since the timer was   *)
(* armed, passes the executions of computeSystemHealth (modulo 3),         *)
(* sinceCompute and sinceTimerPass the time since the last execution and   *)
(* since the last one run by the timer (None: none yet, capped at          *)
(* DEFAULT_UPDATE_INTERVAL), stopped whether stopUpdates stopped the armed *)
(* timer, last the handler that ran last.                                  *)
(* registerSubsystem, unregisterSubsystem, addToCanvas, removeFromCanvas   *)
(* and onSubsystemHealthChanged reach the throttle through                 *)
(* scheduleHealthUpdate only; handlers of the signals of a pass are taken  *)
(* not to call back into the manager.                                      *)
(***************************************************************************)
DEFAULT_UPDATE_INTERVAL == 100
MIN_UPDATE_INTERVAL == 50

\* The throttle after SubsystemManager's constructor
NewThrottle ==
  [m_updateInterval |-> DEFAULT_UPDATE_INTERVAL,
   m_healthUpdatePending |-> FALSE,
   timerLeft |-> None,
   armedWith |-> None,
   windowCalls |-> 0,
   passes |-> 0,
   sinceCompute |-> None,
   sinceTimerPass |-> None,
   stopped |-> FALSE,
   last |-> "new"]

\* setUpdateInterval without its floor of 50 ms
SetUpdateIntervalUnchecked(t, msec) ==
  [t EXCEPT !.m_updateInterval = msec, !.last = "setUpdateInterval"]

\* SubsystemManager::setUpdateInterval
SetUpdateInterval(t, msec) ==
  [t EXCEPT !.m_updateInterval = Max(MIN_UPDATE_INTERVAL, msec), !.last = "setUpdateInterval"]

\* SubsystemManager::stopUpdates
StopUpdates(t) ==
  [t EXCEPT !.timerLeft = None,
            !.stopped = IF t.timerLeft # None THEN TRUE ELSE @,
            !.last = "stopUpdates"]

\* scheduleHealthUpdate that starts the timer on every call
ScheduleHealthUpdateRestarting(t) ==
  [t EXCEPT !.m_healthUpdatePending = TRUE,
            !.timerLeft = t.m_updateInterval,
            !.armedWith = t.m_updateInterval,
            !.windowCalls = IF t.timerLeft = None THEN 1 ELSE @ + 1,
            !.stopped = FALSE,
            !.last = "scheduleHealthUpdate"]

\* SubsystemManager::scheduleHealthUpdate
ScheduleHealthUpdate(t) ==
  IF t.timerLeft = None
    THEN [t EXCEPT !.m_healthUpdatePending = TRUE,
                   !.timerLeft = t.m_updateInterval,
                   !.armedWith = t.m_updateInterval,
                   !.windowCalls = 1,
                   !.stopped = FALSE,
                   !.last = "scheduleHealthUpdate"]
    ELSE [t EXCEPT !.m_healthUpdatePending = TRUE,
                   !.windowCalls = @ + 1,
                   !.last = "scheduleHealthUpdate"]

\* SubsystemManager::computeSystemHealth, as the throttle sees it
ComputeSystemHealth(t) ==
  [t EXCEPT !.passes = (@ + 1) % 3, !.sinceCompute = 0]

\* onThrottledUpdate that leaves the pending flag set
OnThrottledUpdateKeepingFlag(t) ==
  LET fired == [t EXCEPT !.timerLeft = None, !.last = "onThrottledUpdate"]
  IN  IF ~t.m_healthUpdatePending THEN fired
      ELSE [ComputeSystemHealth(fired) EXCEPT !.sinceTimerPass = 0]

\* SubsystemManager::onThrottledUpdate, on the timeout of the single-shot
\* m_throttleTimer
OnThrottledUpdate(t) ==
  LET fired == [t EXCEPT !.timerLeft = None, !.last = "onThrottledUpdate"]
  IN  IF ~t.m_healthUpdatePending THEN fired
      ELSE [ComputeSystemHealth([fired EXCEPT !.m_healthUpdatePending = FALSE])
              EXCEPT !.sinceTimerPass = 0]

\* SubsystemManager::resetAll: the units' reset() and the fault manager's
\* clearAllFaults() leave the throttle alone (the units' healthChanged
\* arrives later, queued, as scheduleHealthUpdate calls)
ResetAll(t) ==
  [ComputeSystemHealth(t) EXCEPT !.last = "resetAll"]

\* TickMs milliseconds pass for the throttle
ThrottleElapse(t) ==
  LET later(x) == IF x = None THEN None ELSE Min(DEFAULT_UPDATE_INTERVAL, x + TickMs)
  IN  [t EXCEPT !.timerLeft = IF @ = None THEN None ELSE Max(0, @ - TickMs),
                !.sinceCompute = later(@),
                !.sinceTimerPass = later(@),
                !.last = "tick"]

\* Arguments of setUpdateInterval
Intervals == {0, MIN_UPDATE_INTERVAL, DEFAULT_UPDATE_INTERVAL}

InitThrottle ==
  /\ thr = NewThrottle
  /\ sub = Idle /\ fm = Idle /\ ha = Idle /\ thd = Idle /\ fn = Idle /\ now = 0 /\ ut = Idle /\ td = Idle /\ mgr = Idle /\ pl = Idle /\ ta = Idle

CallScheduleHealthUpdate ==
  /\ thr # Idle
  /\ thr.timerLeft # None => thr.windowCalls < MaxWindowCalls
  /\ thr' = ScheduleHealthUpdate(thr)
  /\ UNCHANGED <<sub, fm, ha, thd, fn, now, pl, ta, ut, td, mgr>>

CallSetUpdateInterval ==
  /\ thr # Idle
  /\ \E msec \in Intervals : thr' = SetUpdateInterval(thr, msec)
  /\ UNCHANGED <<sub, fm, ha, thd, fn, now, pl, ta, ut, td, mgr>>

CallStopUpdates ==
  /\ thr # Idle
  /\ thr' = StopUpdates(thr)
  /\ UNCHANGED <<sub, fm, ha, thd, fn, now, pl, ta, ut, td, mgr>>

CallResetAll ==
  /\ thr # Idle
  /\ thr' = ResetAll(thr)
  /\ UNCHANGED <<sub, fm, ha, thd, fn, now, pl, ta, ut, td, mgr>>

\* m_throttleTimer times out: not before its interval has passed
ThrottleTimeout ==
  /\ thr # Idle /\ thr.timerLeft = 0
  /\ thr' = OnThrottledUpdate(thr)
  /\ UNCHANGED <<sub, fm, ha, thd, fn, now, pl, ta, ut, td, mgr>>

ThrottleTick ==
  /\ thr # Idle
  /\ thr' = ThrottleElapse(thr)
  /\ UNCHANGED <<sub, fm, ha, thd, fn, now, pl, ta, ut, td, mgr>>

NextThrottle ==
  \/ CallScheduleHealthUpdate
  \/ CallSetUpdateInterval
  \/ CallStopUpdates
  \/ CallResetAll
  \/ ThrottleTimeout
  \/ ThrottleTick

SpecThrottle == InitThrottle /\ [][NextThrottle]_vars

\* The event loop keeps running: time passes and a timer that is due fires
SpecThrottleFair ==
  SpecThrottle /\ WF_vars(ThrottleTick) /\ WF_vars(ThrottleTimeout)

(***************************************************************************)
(* processHealthData called from two threads on one unit.  thd[t].pc is    *)
(* the place of thread t in the function: "out" (not in it), "passed"      *)
(* (read m_processingHealth as false), "lock" (has set the flag, waits for *)
(* m_mutex), "compute" (holds m_mutex), "tail" (has unlocked).  The flag   *)
(* is a plain bool read and written outside the mutex: a read that races   *)
(* with another thread's write may return either value.                    *)
(***************************************************************************)
Threads == {"T1", "T2"}

NewThreads == [t \in Threads |-> [pc |-> "out", calls |-> 0]]

\* Another thread is about to write m_processingHealth
RacingWrite(t) == \E o \in Threads \ {t} : thd[o].pc \in {"passed", "tail"}

\* The values the guard's read of m_processingHealth can return to thread t
GuardReads(t) ==
  IF RacingWrite(t) THEN BOOLEAN ELSE {sub.m_processingHealth}

InitThreads ==
  /\ sub = NewSubsystem("Base") /\ thd = NewThreads
  /\ fm = Idle /\ ha = Idle /\ thr = Idle /\ fn = Idle /\ now = 0 /\ ut = Idle /\ td = Idle /\ mgr = Idle /\ pl = Idle /\ ta = Idle

\* if (m_processingHealth) { m_healthUpdatePending = true; return; }
ThreadGuard(t) ==
  /\ thd # Idle /\ thd[t].pc = "out" /\ thd[t].calls < MaxThreadCalls
  /\ \E processing \in GuardReads(t) :
       IF processing
         THEN /\ sub' = [sub EXCEPT !.m_healthUpdatePending = TRUE]
              /\ thd' = [thd EXCEPT ![t].calls = @ + 1]
         ELSE /\ sub' = sub
              /\ thd' = [thd EXCEPT ![t].pc = "passed", ![t].calls = @ + 1]
  /\ UNCHANGED <<fm, ha, thr, fn, now, pl, ta, ut, td, mgr>>

\* m_processingHealth = true;
ThreadSetFlag(t) ==
  /\ thd # Idle /\ thd[t].pc = "passed"
  /\ sub' = [sub EXCEPT !.m_processingHealth = TRUE]
  /\ thd' = [thd EXCEPT ![t].pc = "lock"]
  /\ UNCHANGED <<fm, ha, thr, fn, now, pl, ta, ut, td, mgr>>

\* QMutexLocker locker(&m_mutex);
ThreadLock(t) ==
  /\ thd # Idle /\ thd[t].pc = "lock" /\ sub.m_mutex = "free"
  /\ sub' = [sub EXCEPT !.m_mutex = t]
  /\ thd' = [thd EXCEPT ![t].pc = "compute"]
  /\ UNCHANGED <<fm, ha, thr, fn, now, pl, ta, ut, td, mgr>>

\* The three compute calls and locker.unlock()
ThreadCompute(t) ==
  /\ thd # Idle /\ thd[t].pc = "compute"
  /\ sub' = [sub EXCEPT !.m_healthState = ComputeHealthState(sub),
                        !.m_healthScore = ComputeHealthScore(sub),
                        !.m_statusMessage = ComputeStatusMessage(sub),
                        !.passParity = 1 - @,
                        !.m_mutex = "free"]
  /\ thd' = [thd EXCEPT ![t].pc = "tail"]
  /\ UNCHANGED <<fm, ha, thr, fn, now, pl, ta, ut, td, mgr>>

\* m_processingHealth = false; and the re-run of a pending request
ThreadFinish(t) ==
  /\ thd # Idle /\ thd[t].pc = "tail"
  /\ sub' = FinishPass(sub)
  /\ thd' = [thd EXCEPT ![t].pc = "out"]
  /\ UNCHANGED <<fm, ha, thr, fn, now, pl, ta, ut, td, mgr>>

\* addFault on the unit by a thread that is not inside processHealthData
ThreadAddFault(t) ==
  /\ thd # Idle /\ thd[t].pc = "out" /\ sub.m_mutex = "free"
  /\ \E f \in BaseFaults : sub' = AddFault(sub, f)
  /\ sub' # sub /\ sub'.posted <= MaxPosted
  /\ UNCHANGED <<fm, ha, thd, thr, fn, now, pl, ta, ut, td, mgr>>

NextThreads ==
  \E t \in Threads :
    \/ ThreadGuard(t)
    \/ ThreadSetFlag(t)
    \/ ThreadLock(t)
    \/ ThreadCompute(t)
    \/ ThreadFinish(t)
    \/ ThreadAddFault(t)

SpecThreads == InitThreads /\ [][NextThreads]_vars

(***************************************************************************)
(* getHealthSnapshot on one thread against processHealthData on the        *)
(* object's thread (SpecSnapshot).  Here thd is the record                 *)
(*   w    - the object's thread: pc "out", "lock" (has set the flag, waits *)
(*          for m_mutex), "state", "score", "message" (holds m_mutex, the  *)
(*          next assignment of lines 334-336), "unlock", "tail"            *)
(*   r    - the reader: pc "out", "state", "score", "message" (holds       *)
(*          m_mutex, the next field it copies), "unlock"; snapshot is the  *)
(*          HealthSnapshot it fills, stamp the pass that wrote each copied *)
(*          field                                                          *)
(*   pass - the number of recompute passes that acquired m_mutex           *)
(*   by   - the pass that wrote m_healthState, m_healthScore and           *)
(*          m_statusMessage last (0: the constructor)                      *)
(***************************************************************************)
\* A locker that does not wait for the mutex
CanLockAlways(s) == TRUE

\* QMutexLocker locker(&m_mutex) returns once the mutex is free
CanLock(s) == s.m_mutex = "free"

HealthFields == {"state", "score", "message"}

NewSnapshotThreads ==
  [w |-> [pc |-> "out", calls |-> 0],
   r |-> [pc |-> "out", calls |-> 0,
          snapshot |-> [state |-> "UNKNOWN", healthScore |-> SCORE_FULL,
                        statusMessage |-> ""],
          stamp |-> [f \in HealthFields |-> 0]],
   pass |-> 0,
   by |-> [f \in HealthFields |-> 0]]

InitSnapshot ==
  /\ sub = NewSubsystem("Base") /\ thd = NewSnapshotThreads
  /\ fm = Idle /\ ha = Idle /\ thr = Idle /\ fn = Idle /\ now = 0
  /\ pl = Idle /\ ta = Idle /\ ut = Idle /\ td = Idle /\ mgr = Idle

\* addFault, clearFault and setEnabled called on the object's thread
WriterChange ==
  /\ thd # Idle /\ thd.w.pc = "out" /\ thd.w.calls < MaxWriterCalls
  /\ CanLock(sub)
  /\ \/ \E f \in BaseFaults : sub' = AddFault(sub, f)
     \/ \E f \in BaseFaults : sub' = ClearFault(sub, f.code)
     \/ \E e \in BOOLEAN : sub' = SetEnabled(sub, e)
  /\ sub' # sub
  /\ thd' = [thd EXCEPT !.w.calls = @ + 1]
  /\ UNCHANGED <<fm, ha, thr, fn, now, pl, ta, ut, td, mgr>>

\* The event loop delivers a posted processHealthData: lines 320-326
WriterEnter ==
  /\ thd # Idle /\ thd.w.pc = "out" /\ sub.posted > 0
  /\ ~sub.m_processingHealth
  /\ sub' = [sub EXCEPT !.posted = @ - 1, !.m_processingHealth = TRUE]
  /\ thd' = [thd EXCEPT !.w.pc = "lock"]
  /\ UNCHANGED <<fm, ha, thr, fn, now, pl, ta, ut, td, mgr>>

\* QMutexLocker locker(&m_mutex); line 328
WriterLock ==
  /\ thd # Idle /\ thd.w.pc = "lock" /\ CanLock(sub)
  /\ sub' = [sub EXCEPT !.m_mutex = "w"]
  /\ thd' = [thd EXCEPT !.w.pc = "state", !.pass = @ + 1]
  /\ UNCHANGED <<fm, ha, thr, fn, now, pl, ta, ut, td, mgr>>

\* m_healthState = computeHealthState(); line 334
WriterState ==
  /\ thd # Idle /\ thd.w.pc = "state"
  /\ sub' = [sub EXCEPT !.m_healthState = ComputeHealthState(sub)]
  /\ thd' = [thd EXCEPT !.w.pc = "score", !.by.state = thd.pass]
  /\ UNCHANGED <<fm, ha, thr, fn, now, pl, ta, ut, td, mgr>>

\* m_healthScore = computeHealthScore(); line 335
WriterScore ==
  /\ thd # Idle /\ thd.w.pc = "score"
  /\ sub' = [sub EXCEPT !.m_healthScore = ComputeHealthScore(sub)]
  /\ thd' = [thd EXCEPT !.w.pc = "message", !.by.score = thd.pass]
  /\ UNCHANGED <<fm, ha, thr, fn, now, pl, ta, ut, td, mgr>>

\* m_statusMessage = computeStatusMessage(); line 336
WriterMessage ==
  /\ thd # Idle /\ thd.w.pc = "message"
  /\ sub' = [sub EXCEPT !.m_statusMessage = ComputeStatusMessage(sub)]
  /\ thd' = [thd EXCEPT !.w.pc = "unlock", !.by.message = thd.pass]
  /\ UNCHANGED <<fm, ha, thr, fn, now, pl, ta, ut, td, mgr>>

\* locker.unlock(); line 338
WriterUnlock ==
  /\ thd # Idle /\ thd.w.pc = "unlock"
  /\ sub' = [sub EXCEPT !.m_mutex = "free"]
  /\ thd' = [thd EXCEPT !.w.pc = "tail"]
  /\ UNCHANGED <<fm, ha, thr, fn, now, pl, ta, ut, td, mgr>>

\* The signals and m_processingHealth = false; lines 340-372
WriterFinish ==
  /\ thd # Idle /\ thd.w.pc = "tail"
  /\ sub' = FinishPass(sub)
  /\ thd' = [thd EXCEPT !.w.pc = "out"]
  /\ UNCHANGED <<fm, ha, thr, fn, now, pl, ta, ut, td, mgr>>

\* getHealthSnapshot: QMutexLocker locker(&m_mutex); line 101
ReaderLock ==
  /\ thd # Idle /\ thd.r.pc = "out" /\ thd.r.calls < MaxReaderCalls
  /\ CanLock(sub)
  /\ sub' = [sub EXCEPT !.m_mutex = "r"]
  /\ thd' = [thd EXCEPT !.r.pc = "state"]
  /\ UNCHANGED <<fm, ha, thr, fn, now, pl, ta, ut, td, mgr>>

\* snapshot.state = m_healthState; line 104
ReaderState ==
  /\ thd # Idle /\ thd.r.pc = "state"
  /\ thd' = [thd EXCEPT !.r.pc = "score",
                        !.r.snapshot.state = sub.m_healthState,
                        !.r.stamp.state = thd.by.state]
  /\ UNCHANGED <<sub, fm, ha, thr, fn, now, pl, ta, ut, td, mgr>>

\* snapshot.healthScore = m_healthScore; line 108
ReaderScore ==
  /\ thd # Idle /\ thd.r.pc = "score"
  /\ thd' = [thd EXCEPT !.r.pc = "message",
                        !.r.snapshot.healthScore = sub.m_healthScore,
                        !.r.stamp.score = thd.by.score]
  /\ UNCHANGED <<sub, fm, ha, thr, fn, now, pl, ta, ut, td, mgr>>

\* snapshot.statusMessage = m_statusMessage; line 109
ReaderMessage ==
  /\ thd # Idle /\ thd.r.pc = "message"
  /\ thd' = [thd EXCEPT !.r.pc = "unlock",
                        !.r.snapshot.statusMessage = sub.m_statusMessage,
                        !.r.stamp.message = thd.by.message]
  /\ UNCHANGED <<sub, fm, ha, thr, fn, now, pl, ta, ut, td, mgr>>

\* return snapshot; the locker releases m_mutex
ReaderReturn ==
  /\ thd # Idle /\ thd.r.pc = "unlock"
  /\ sub' = [sub EXCEPT !.m_mutex = "free"]
  /\ thd' = [thd EXCEPT !.r.pc = "out", !.r.calls = @ + 1]
  /\ UNCHANGED <<fm, ha, thr, fn, now, pl, ta, ut, td, mgr>>

NextSnapshot ==
  \/ WriterChange
  \/ WriterEnter
  \/ WriterLock
  \/ WriterState
  \/ WriterScore
  \/ WriterMessage
  \/ WriterUnlock
  \/ WriterFinish
  \/ ReaderLock
  \/ ReaderState
  \/ ReaderScore
  \/ ReaderMessage
  \/ ReaderReturn

SpecSnapshot == InitSnapshot /\ [][NextSnapshot]_vars

(***************************************************************************)
(* HealthDataPipeline: src/src/core/HealthDataPipeline.cpp                 *)
(* A QVariant is a record [t, c, v]: a double is finite (c = "finite",     *)
(* value v) or one of NaN, +Infinity, -Infinity; a string carries its text *)
(* in c.  A QVariantMap is a function from its keys, iterated in key order.*)
(***************************************************************************)
Fin(v) == [t |-> "double", c |-> "finite", v |-> v]
NaN == [t |-> "double", c |-> "nan", v |-> 0]
PosInf == [t |-> "double", c |-> "+inf", v |-> 0]
NegInf == [t |-> "double", c |-> "-inf", v |-> 0]
Str(s) == [t |-> "string", c |-> s, v |-> 0]

\* The keys of the maps of the model, in the order a QMap iterates them
KeyOrder == <<"mode", "temperature">>

\* QString::toUpper for the keys of the model
ToUpper(s) == IF s = "temperature" THEN "TEMPERATURE" ELSE IF s = "mode" THEN "MODE" ELSE s

\* QString::toDouble(&ok): the texts of the model that read as a number
NumericText == [s \in {"42", "90"} |-> IF s = "42" THEN 42 ELSE 90]

ParseDouble(s) ==
  IF s \in DOMAIN NumericText THEN [ok |-> TRUE, d |-> Fin(NumericText[s])]
  ELSE [ok |-> FALSE, d |-> Fin(0)]

\* QVariant::toDouble
ToDouble(value) == IF value.t = "string" THEN ParseDouble(value.c).d ELSE value

\* std::isnan / std::isinf
IsNan(d) == d.c = "nan"
IsInf(d) == d.c \in {"+inf", "-inf"}

\* value > limit and value < limit for a double and a finite limit
Greater(d, limit) == d.c = "+inf" \/ (d.c = "finite" /\ d.v > limit)
Less(d, limit) == d.c = "-inf" \/ (d.c = "finite" /\ d.v < limit)

\* HealthDataPipeline::validateRequired
ValidateRequired(data, schema) ==
  IF "required" \notin DOMAIN schema THEN TRUE
  ELSE \A i \in 1..Len(schema.required) : schema.required[i] \in DOMAIN data

\* HealthDataPipeline::validateDataTypes
ValidateDataTypes(data) ==
  ~\E p \in DOMAIN data :
     data[p].t = "string" /\ data[p].c \in {"NaN", "Infinity", "-Infinity"}

\* HealthDataPipeline::validateRanges (every QVariant of the model converts
\* to double)
ValidateRanges(data) ==
  ~\E p \in DOMAIN data : IsNan(ToDouble(data[p])) \/ IsInf(ToDouble(data[p]))

\* HealthDataPipeline::sanitizeData
SanitizeData(data) ==
  [p \in DOMAIN data |->
     IF data[p].t = "string" /\ ParseDouble(data[p].c).ok
       THEN ParseDouble(data[p].c).d
       ELSE data[p]]

\* HealthDataPipeline::validateData
ValidateData(schemas, subsystemId, data) ==
  LET schema == ValueOr(schemas, subsystemId, <<>>)
  IN  IF ~ValidateRequired(data, schema)
        THEN [valid |-> FALSE, errorMessage |-> "Missing required fields",
              warnings |-> <<>>, sanitizedData |-> data]
      ELSE IF ~ValidateDataTypes(data)
        THEN [valid |-> FALSE, errorMessage |-> "Invalid data types",
              warnings |-> <<>>, sanitizedData |-> data]
      ELSE [valid |-> TRUE, errorMessage |-> "",
            warnings |-> IF ValidateRanges(data) THEN <<>>
                         ELSE <<"Some values outside expected range">>,
            sanitizedData |-> SanitizeData(data)]

\* m_defaultThresholds after the constructor (None: key not in the map)
DefaultThresholds ==
  [temperature |-> [warningLow |-> None, criticalLow |-> None,
                    warningHigh |-> 60, criticalHigh |-> 80]]

\* HealthDataPipeline::computeHealthState
PipelineComputeHealthState(data, thresholds) ==
  LET checked == DOMAIN data \cap DOMAIN thresholds
      value(p) == ToDouble(data[p])
      th(p) == thresholds[p]
      critHigh(p) == th(p).criticalHigh # None /\ Greater(value(p), th(p).criticalHigh)
      critLow(p) == th(p).criticalLow # None /\ Less(value(p), th(p).criticalLow)
      warnHigh(p) == th(p).warningHigh # None /\ Greater(value(p), th(p).warningHigh)
      warnLow(p) == th(p).warningLow # None /\ Less(value(p), th(p).warningLow)
      hasCritical == \E p \in checked : critHigh(p) \/ critLow(p)
      hasWarning == \E p \in checked :
                      ~critHigh(p) /\ ~critLow(p) /\ (warnHigh(p) \/ warnLow(p))
  IN  IF hasCritical THEN "FAIL" ELSE IF hasWarning THEN "DEGRADED" ELSE "OK"

\* The penalty of one parameter in HealthDataPipeline::computeHealthScore,
\* in hundredths of a point
ParamPenalty(d, th) ==
  LET high == IF th.criticalHigh = None \/ th.warningHigh = None THEN 0
              ELSE IF Greater(d, th.criticalHigh) THEN 3000
              ELSE IF Greater(d, th.warningHigh)
                THEN 1000 + (2000 * (d.v - th.warningHigh))
                              \div (th.criticalHigh - th.warningHigh)
              ELSE 0
      low == IF th.criticalLow = None \/ th.warningLow = None THEN 0
             ELSE IF Less(d, th.criticalLow) THEN 3000
             ELSE IF Less(d, th.warningLow)
               THEN 1000 + (2000 * (th.warningLow - d.v))
                             \div (th.warningLow - th.criticalLow)
             ELSE 0
  IN  high + low

RECURSIVE ParamPenalties(_, _, _)
ParamPenalties(data, thresholds, i) ==
  IF i > Len(KeyOrder) THEN 0
  ELSE (IF KeyOrder[i] \in DOMAIN data \cap DOMAIN thresholds
          THEN ParamPenalty(ToDouble(data[KeyOrder[i]]), thresholds[KeyOrder[i]])
          ELSE 0)
       + ParamPenalties(data, thresholds, i + 1)

\* HealthDataPipeline::computeHealthScore
PipelineComputeHealthScore(data, thresholds) ==
  Max(0, Min(SCORE_FULL, SCORE_FULL - ParamPenalties(data, thresholds, 1)))

\* HealthDataPipeline::detectFaults: the codes of the faults, in key order
RECURSIVE DetectFaults(_, _, _)
DetectFaults(data, thresholds, i) ==
  IF i > Len(KeyOrder) THEN <<>>
  ELSE LET p == KeyOrder[i]
           on == p \in DOMAIN data \cap DOMAIN thresholds
           high == on /\ thresholds[p].criticalHigh # None
                      /\ Greater(ToDouble(data[p]), thresholds[p].criticalHigh)
           low == on /\ thresholds[p].criticalLow # None
                     /\ Less(ToDouble(data[p]), thresholds[p].criticalLow)
       IN  (IF high THEN <<ToUpper(p) \o "-HIGH">> ELSE <<>>)
           \o (IF low THEN <<ToUpper(p) \o "-LOW">> ELSE <<>>)
           \o DetectFaults(data, thresholds, i + 1)

\* HealthDataPipeline::processData
ProcessData(subsystemId, data) ==
  [computedState |-> PipelineComputeHealthState(data, DefaultThresholds),
   healthScore |-> PipelineComputeHealthScore(data, DefaultThresholds),
   detectedFaults |-> DetectFaults(data, DefaultThresholds, 1)]

\* const int maxItemsPerTick = 10 (processQueue)
maxItemsPerTick == 10

\* The units that submit, in key order: two ordinary ones and those of a
\* burst that fills the queue past one tick's batch
OrdinaryUnits == <<"U01", "U02">>
BurstNames ==
  <<"V01", "V02", "V03", "V04", "V05", "V06", "V07", "V08", "V09", "V10", "V11", "V12">>
BurstUnits == SubSeq(BurstNames, 1, Min(MaxBurst, Len(BurstNames)))
UnitOrder == OrdinaryUnits \o BurstUnits
Range(seq) == {seq[i] : i \in 1..Len(seq)}

\* The pipeline after its constructor.  pc is "drain" while processQueue is
\* in its loop and processed is the loop's counter.  Ghost fields: submitted
\* counts the items ever enqueued and numbers them (seq), removed counts the
\* items the running processQueue call has dequeued, emitted are the signals
\* of the last step, last names it, done is the number of the last item of
\* each unit whose outcome has been produced.
NewPipeline ==
  [m_running |-> FALSE,
   timerActive |-> FALSE,
   m_dataQueue |-> <<>>,
   m_processedCount |-> 0,
   m_errorCount |-> 0,
   m_validationSchemas |-> <<>>,
   pc |-> "idle",
   processed |-> 0,
   submitted |-> 0,
   removed |-> 0,
   emitted |-> <<>>,
   last |-> "new",
   done |-> [u \in Range(UnitOrder) |-> 0]]

\* HealthDataPipeline::start
Start(p) ==
  IF p.m_running THEN [p EXCEPT !.emitted = <<>>, !.last = "start"]
  ELSE [p EXCEPT !.m_running = TRUE, !.timerActive = TRUE,
                 !.emitted = <<<<"runningChanged">>>>, !.last = "start"]

\* HealthDataPipeline::stop
Stop(p) ==
  IF ~p.m_running THEN [p EXCEPT !.emitted = <<>>, !.last = "stop"]
  ELSE [p EXCEPT !.m_running = FALSE, !.timerActive = FALSE,
                 !.emitted = <<<<"runningChanged">>>>, !.last = "stop"]

\* m_dataQueue.enqueue(item); the timestamp of an item is read nowhere
Enqueue(p, subsystemId, data) ==
  [p EXCEPT !.m_dataQueue = Append(@, [subsystemId |-> subsystemId, data |-> data,
                                       seq |-> p.submitted + 1]),
            !.submitted = @ + 1]

\* submitData that puts the item at the head of the queue
SubmitDataAtHead(p, subsystemId, data) ==
  [p EXCEPT !.m_dataQueue = <<[subsystemId |-> subsystemId, data |-> data,
                               seq |-> p.submitted + 1]>> \o @,
            !.submitted = @ + 1,
            !.emitted = <<<<"queueChanged">>>>,
            !.last = "submitData"]

\* HealthDataPipeline::submitData
SubmitData(p, subsystemId, data) ==
  [Enqueue(p, subsystemId, data) EXCEPT !.emitted = <<<<"queueChanged">>>>,
                                        !.last = "submitData"]

RECURSIVE EnqueueBatch(_, _, _)
EnqueueBatch(p, batchData, i) ==
  IF i > Len(UnitOrder) THEN p
  ELSE EnqueueBatch(IF UnitOrder[i] \in DOMAIN batchData
                      THEN Enqueue(p, UnitOrder[i], batchData[UnitOrder[i]])
                      ELSE p,
                    batchData, i + 1)

\* HealthDataPipeline::submitBatchData
SubmitBatchData(p, batchData) ==
  [EnqueueBatch(p, batchData, 1) EXCEPT !.emitted = <<<<"queueChanged">>>>,
                                        !.last = "submitBatchData"]

\* HealthDataPipeline::setValidationSchema
SetValidationSchema(p, subsystemType, schema) ==
  [p EXCEPT !.m_validationSchemas = Put(@, subsystemType, schema),
            !.emitted = <<>>, !.last = "setValidationSchema"]

\* The signals of one valid item
ResultEvents(item, result) ==
  <<<<"dataProcessed", item.subsystemId, item.seq, result.computedState, result.healthScore>>,
    <<"healthStateComputed", item.subsystemId, item.seq, result.computedState,
      result.healthScore>>>>
  \o [i \in 1..Len(result.detectedFaults) |->
        <<"faultDetected", item.subsystemId, item.seq, result.detectedFaults[i], 0>>]

\* One iteration of the loop of processQueue that stops at an invalid item
ProcessItemStopping(p) ==
  LET item == Head(p.m_dataQueue)
      validation == ValidateData(p.m_validationSchemas, item.subsystemId, item.data)
      result == ProcessData(item.subsystemId, validation.sanitizedData)
      q == [p EXCEPT !.m_dataQueue = Tail(@),
                     !.removed = @ + 1,
                     !.done = [@ EXCEPT ![item.subsystemId] = item.seq],
                     !.last = "processQueue"]
  IN  IF ~validation.valid
        THEN [q EXCEPT !.m_errorCount = @ + 1,
                       !.processed = maxItemsPerTick,
                       !.emitted = <<<<"validationError", item.subsystemId, item.seq,
                                       validation.errorMessage, 0>>>>]
        ELSE [q EXCEPT !.m_processedCount = @ + 1,
                       !.processed = @ + 1,
                       !.emitted = ResultEvents(item, result)]

\* One iteration of the loop of processQueue that does not count an invalid
\* item
ProcessItemUncounted(p) ==
  LET item == Head(p.m_dataQueue)
      validation == ValidateData(p.m_validationSchemas, item.subsystemId, item.data)
      result == ProcessData(item.subsystemId, validation.sanitizedData)
      q == [p EXCEPT !.m_dataQueue = Tail(@),
                     !.removed = @ + 1,
                     !.done = [@ EXCEPT ![item.subsystemId] = item.seq],
                     !.last = "processQueue"]
  IN  IF ~validation.valid
        THEN [q EXCEPT !.emitted = <<<<"validationError", item.subsystemId, item.seq,
                                       validation.errorMessage, 0>>>>]
        ELSE [q EXCEPT !.m_processedCount = @ + 1,
                       !.processed = @ + 1,
                       !.emitted = ResultEvents(item, result)]

\* One iteration of the loop of processQueue: dequeue, validate, process
ProcessItem(p) ==
  LET item == Head(p.m_dataQueue)
      validation == ValidateData(p.m_validationSchemas, item.subsystemId, item.data)
      result == ProcessData(item.subsystemId, validation.sanitizedData)
      q == [p EXCEPT !.m_dataQueue = Tail(@),
                     !.removed = @ + 1,
                     !.done = [@ EXCEPT ![item.subsystemId] = item.seq],
                     !.last = "processQueue"]
  IN  IF ~validation.valid
        THEN [q EXCEPT !.m_errorCount = @ + 1,
                       !.emitted = <<<<"validationError", item.subsystemId, item.seq,
                                       validation.errorMessage, 0>>>>]
        ELSE [q EXCEPT !.m_processedCount = @ + 1,
                       !.processed = @ + 1,
                       !.emitted = ResultEvents(item, result)]

\* The end of processQueue
EndTick(p) ==
  [p EXCEPT !.pc = "idle",
            !.processed = 0,
            !.removed = 0,
            !.emitted = IF p.processed > 0 THEN <<<<"statsChanged">>, <<"queueChanged">>>>
                        ELSE <<>>,
            !.last = "processQueue"]

\* The loop of processQueue from its condition on, up to the signals of the
\* next item or to the end of the function
DrainStep(p) ==
  IF p.processed < maxItemsPerTick /\ p.m_dataQueue # <<>> THEN ProcessItem(p)
  ELSE EndTick(p)

\* HealthDataPipeline::processQueue, the slot of m_processTimer
ProcessQueue(p) == DrainStep([p EXCEPT !.pc = "drain", !.processed = 0, !.removed = 0])

(***************************************************************************)
(* The pipeline on its event-loop thread.  Calls come from outside while   *)
(* the loop is idle, or from a handler of a signal of processQueue while   *)
(* it is in its loop (pc = "drain"); m_processTimer is delivered only by   *)
(* the idle loop.                                                          *)
(***************************************************************************)
\* Payloads of submitData
PipeData ==
  {[temperature |-> Fin(25)], [temperature |-> Fin(90)], [temperature |-> NaN],
   [temperature |-> Str("NaN")], [mode |-> Str("abc")]}

\* Payloads of submitBatchData: two units at once, and bursts of MaxBurst
\* units whose items are all valid, all invalid, or alternate
Batches ==
  {[u \in Range(OrdinaryUnits) |-> d] : d \in {[temperature |-> Fin(25)],
                                               [temperature |-> Str("NaN")]}}
  \cup {[u \in Range(BurstUnits) |-> [temperature |-> Fin(25)]],
        [u \in Range(BurstUnits) |-> [temperature |-> Str("Infinity")]],
        [u \in Range(BurstUnits) |->
           IF (CHOOSE i \in 1..Len(BurstUnits) : BurstUnits[i] = u) % 2 = 0
             THEN [temperature |-> Fin(70)]
             ELSE [temperature |-> Str("-Infinity")]]}

Schemas == {[required |-> <<"temperature">>]}

MaySubmit == pl # Idle /\ pl.submitted < MaxSubmitted /\ Len(pl.m_dataQueue) < MaxQueue

InitPipeline ==
  /\ pl = NewPipeline
  /\ sub = Idle /\ fm = Idle /\ ha = Idle /\ thd = Idle /\ thr = Idle /\ fn = Idle
  /\ ta = Idle /\ now = 0 /\ ut = Idle /\ td = Idle /\ mgr = Idle

CallStart ==
  /\ pl # Idle
  /\ pl' = Start(pl)
  /\ UNCHANGED <<sub, fm, ha, thd, thr, fn, now, ta, ut, td, mgr>>

CallStop ==
  /\ pl # Idle
  /\ pl' = Stop(pl)
  /\ UNCHANGED <<sub, fm, ha, thd, thr, fn, now, ta, ut, td, mgr>>

CallSubmitData ==
  /\ MaySubmit
  /\ \E u \in Range(OrdinaryUnits), d \in PipeData : pl' = SubmitData(pl, u, d)
  /\ UNCHANGED <<sub, fm, ha, thd, thr, fn, now, ta, ut, td, mgr>>

CallSubmitBatchData ==
  /\ MaySubmit
  /\ \E b \in Batches : pl' = SubmitBatchData(pl, b)
  /\ UNCHANGED <<sub, fm, ha, thd, thr, fn, now, ta, ut, td, mgr>>

CallSetValidationSchema ==
  /\ pl # Idle
  /\ \E s \in Schemas : pl' = SetValidationSchema(pl, "U01", s)
  /\ UNCHANGED <<sub, fm, ha, thd, thr, fn, now, ta, ut, td, mgr>>

\* m_processTimer times out
ProcessTimerFires ==
  /\ pl # Idle /\ pl.pc = "idle" /\ pl.timerActive
  /\ pl' = ProcessQueue(pl)
  /\ UNCHANGED <<sub, fm, ha, thd, thr, fn, now, ta, ut, td, mgr>>

\* processQueue goes on after the handlers of an item's signals returned
DrainNext ==
  /\ pl # Idle /\ pl.pc = "drain"
  /\ pl' = DrainStep(pl)
  /\ UNCHANGED <<sub, fm, ha, thd, thr, fn, now, ta, ut, td, mgr>>

(***************************************************************************)
(* validateData and processData as functions of their arguments: fn holds  *)
(* the arguments and what the two functions return for them.               *)
(***************************************************************************)
ValidateInputs ==
  PipeData \cup
  {[temperature |-> PosInf], [temperature |-> NegInf],
   [temperature |-> Str("Infinity")], [temperature |-> Str("-Infinity")],
   [temperature |-> Str("42")], [temperature |-> Str("90")], [temperature |-> Fin(70)],
   [mode |-> Str("abc"), temperature |-> Fin(25)],
   [mode |-> Str("NaN"), temperature |-> Fin(25)],
   [mode |-> NaN, temperature |-> Fin(90)]}

SchemaMaps == {<<>>} \cup {Put(<<>>, "U01", s) : s \in Schemas}

Validated(schemas, subsystemId, data) ==
  LET validation == ValidateData(schemas, subsystemId, data)
  IN  [kind |-> "validateData",
       schemas |-> schemas,
       subsystemId |-> subsystemId,
       data |-> data,
       validation |-> validation,
       result |-> ProcessData(subsystemId, validation.sanitizedData)]

InitValidate ==
  /\ \E s \in SchemaMaps, u \in Range(OrdinaryUnits), d \in ValidateInputs :
       fn = Validated(s, u, d)
  /\ sub = Idle /\ fm = Idle /\ ha = Idle /\ thd = Idle /\ thr = Idle /\ pl = Idle
  /\ ta = Idle /\ now = 0 /\ ut = Idle /\ td = Idle /\ mgr = Idle

FnValidateData ==
  /\ fn # Idle /\ fn.kind = "validateData"
  /\ \E u \in Range(OrdinaryUnits), d \in ValidateInputs : fn' = Validated(fn.schemas, u, d)
  /\ UNCHANGED <<sub, fm, ha, thd, thr, now, pl, ta, ut, td, mgr>>

FnSetValidationSchema ==
  /\ fn # Idle /\ fn.kind = "validateData"
  /\ \E s \in Schemas :
       fn' = Validated(Put(fn.schemas, "U01", s), fn.subsystemId, fn.data)
  /\ UNCHANGED <<sub, fm, ha, thd, thr, now, pl, ta, ut, td, mgr>>

NextPipeline ==
  \/ CallStart
  \/ CallStop
  \/ CallSubmitData
  \/ CallSubmitBatchData
  \/ CallSetValidationSchema
  \/ ProcessTimerFires
  \/ DrainNext
  \/ FnValidateData
  \/ FnSetValidationSchema

SpecPipeline == (InitPipeline \/ InitValidate) /\ [][NextPipeline]_vars

(***************************************************************************)
(* TelemetryData: src/src/core/TelemetryData.cpp                           *)
(* td.m_parameters maps a name to its TelemetryParameter, td.emitted are   *)
(* the signals of the last call.                                           *)
(***************************************************************************)
\* QVariant(): the invalid variant
Invalid == [t |-> "invalid", c |-> "", v |-> 0]

\* QVariant::canConvert<double>() for the variants of the model
CanConvertDouble(value) == value.t \in {"double", "string"}

\* QVariant::isValid
IsValidVariant(value) == value.t # "invalid"

NewTelemetryData == [m_parameters |-> <<>>, m_lastUpdate |-> 0, emitted |-> <<>>]

\* TelemetryParameter(name, displayName, unit) with its limits assigned, as
\* the units' initializeTelemetryParameters build them
Parameter(name, value, minValue, maxValue, valid) ==
  [name |-> name, value |-> value, minValue |-> minValue, maxValue |-> maxValue,
   warningLow |-> Invalid, warningHigh |-> Fin(60),
   criticalLow |-> Invalid, criticalHigh |-> Fin(80),
   timestamp |-> 0, isValid |-> valid]

\* TelemetryData::addParameter
AddParameter(d, param, time) ==
  [d EXCEPT !.m_parameters = Put(@, param.name, param),
            !.m_lastUpdate = time,
            !.emitted = <<<<"dataChanged">>>>]

\* TelemetryData::removeParameter
RemoveParameter(d, name) ==
  IF name \in DOMAIN d.m_parameters
    THEN [d EXCEPT !.m_parameters = Drop(@, {name}), !.emitted = <<<<"dataChanged">>>>]
    ELSE [d EXCEPT !.emitted = <<>>]

\* setValue: the threshold it reports
ThresholdExceeded(param, value) ==
  LET v == ToDouble(value)
  IN  IF ~CanConvertDouble(value) THEN <<>>
      ELSE IF IsValidVariant(param.criticalLow) /\ Less(v, param.criticalLow.v)
        THEN <<<<"thresholdExceeded", param.name, "criticalLow">>>>
      ELSE IF IsValidVariant(param.criticalHigh) /\ Greater(v, param.criticalHigh.v)
        THEN <<<<"thresholdExceeded", param.name, "criticalHigh">>>>
      ELSE IF IsValidVariant(param.warningLow) /\ Less(v, param.warningLow.v)
        THEN <<<<"thresholdExceeded", param.name, "warningLow">>>>
      ELSE IF IsValidVariant(param.warningHigh) /\ Greater(v, param.warningHigh.v)
        THEN <<<<"thresholdExceeded", param.name, "warningHigh">>>>
      ELSE <<>>

\* TelemetryData::setValue
SetValue(d, name, value, time) ==
  IF name \notin DOMAIN d.m_parameters THEN [d EXCEPT !.emitted = <<>>]
  ELSE [d EXCEPT !.m_parameters[name].value = value,
                 !.m_parameters[name].timestamp = time,
                 !.m_lastUpdate = time,
                 !.emitted = ThresholdExceeded(d.m_parameters[name], value)
                               \o <<<<"parameterChanged", name, value>>, <<"dataChanged">>>>]

\* TelemetryData::setValues
TdSetValues(d, values, time) ==
  [d EXCEPT !.m_parameters =
               [n \in DOMAIN d.m_parameters |->
                  IF n \in DOMAIN values
                    THEN [d.m_parameters[n] EXCEPT !.value = values[n], !.timestamp = time]
                    ELSE d.m_parameters[n]],
            !.m_lastUpdate = time,
            !.emitted = <<<<"dataChanged">>>>]

\* TelemetryData::isWithinLimits
IsWithinLimits(d, name) ==
  IF name \notin DOMAIN d.m_parameters THEN TRUE
  ELSE LET param == d.m_parameters[name]
           v == ToDouble(param.value)
       IN  IF ~CanConvertDouble(param.value) THEN TRUE
           ELSE IF IsValidVariant(param.minValue) /\ Less(v, param.minValue.v) THEN FALSE
           ELSE IF IsValidVariant(param.maxValue) /\ Greater(v, param.maxValue.v) THEN FALSE
           ELSE TRUE

\* validate: the flag of one parameter
ValidatedFlag(param) ==
  LET v == ToDouble(param.value)
  IN  IF ~CanConvertDouble(param.value) THEN param.isValid
      ELSE ~(IsValidVariant(param.minValue) /\ Less(v, param.minValue.v))
           /\ ~(IsValidVariant(param.maxValue) /\ Greater(v, param.maxValue.v))

\* The names of the model in the order m_parameters (a QMap) iterates them
TdNameOrder == <<"temperature", "voltage">>

RECURSIVE ValidityChanged(_, _)
ValidityChanged(params, i) ==
  IF i > Len(TdNameOrder) THEN <<>>
  ELSE LET n == TdNameOrder[i]
       IN  (IF n \in DOMAIN params /\ ValidatedFlag(params[n]) # params[n].isValid
              THEN <<<<"validityChanged", n, ValidatedFlag(params[n])>>>>
              ELSE <<>>)
           \o ValidityChanged(params, i + 1)

\* TelemetryData::validate
Validate(d) ==
  [d EXCEPT !.m_parameters =
               [n \in DOMAIN d.m_parameters |->
                  [d.m_parameters[n] EXCEPT !.isValid = ValidatedFlag(d.m_parameters[n])]],
            !.emitted = ValidityChanged(d.m_parameters, 1)]

(***************************************************************************)
(* One TelemetryData driven through its public calls                       *)
(***************************************************************************)
TdNames == {TdNameOrder[i] : i \in 1..Len(TdNameOrder)}
TdValues == {Fin(50), Fin(150), Fin(-5), Str("abc"), Invalid}
TdParameters ==
  {Parameter("temperature", Fin(50), Fin(0), Fin(100), TRUE),
   Parameter("temperature", Fin(150), Fin(0), Fin(100), TRUE),
   Parameter("voltage", Invalid, Invalid, Fin(100), FALSE)}
TdMaps == {[temperature |-> Fin(150)], [temperature |-> Fin(50), voltage |-> Fin(-5)], <<>>}

InitTelemetry ==
  /\ td = NewTelemetryData
  /\ sub = Idle /\ fm = Idle /\ ha = Idle /\ thd = Idle /\ thr = Idle /\ fn = Idle
  /\ pl = Idle /\ ta = Idle /\ ut = Idle /\ mgr = Idle /\ now = 0

TdAddParameter ==
  /\ td # Idle
  /\ \E param \in TdParameters : td' = AddParameter(td, param, now)
  /\ UNCHANGED <<sub, fm, ha, thd, thr, fn, now, pl, ta, ut, mgr>>

TdRemoveParameter ==
  /\ td # Idle
  /\ \E n \in TdNames : td' = RemoveParameter(td, n)
  /\ UNCHANGED <<sub, fm, ha, thd, thr, fn, now, pl, ta, ut, mgr>>

TdSetValue ==
  /\ td # Idle
  /\ \E n \in TdNames, value \in TdValues : td' = SetValue(td, n, value, now)
  /\ UNCHANGED <<sub, fm, ha, thd, thr, fn, now, pl, ta, ut, mgr>>

TdCallSetValues ==
  /\ td # Idle
  /\ \E values \in TdMaps : td' = TdSetValues(td, values, now)
  /\ UNCHANGED <<sub, fm, ha, thd, thr, fn, now, pl, ta, ut, mgr>>

TdValidate ==
  /\ td # Idle
  /\ td' = Validate(td)
  /\ UNCHANGED <<sub, fm, ha, thd, thr, fn, now, pl, ta, ut, mgr>>

NextTelemetry ==
  \/ TdAddParameter
  \/ TdRemoveParameter
  \/ TdSetValue
  \/ TdCallSetValues
  \/ TdValidate

SpecTelemetry == InitTelemetry /\ [][NextTelemetry]_vars

(***************************************************************************)
(* SubsystemManager: src/src/core/SubsystemManager.cpp                     *)
(* mgr.m_subsystems maps an id to the unit registered under it,            *)
(* mgr.m_faultManager is the manager's FaultManager, mgr.queue holds the   *)
(* queued deliveries the event loop of the manager's thread has not run    *)
(* yet, oldest first.                                                      *)
(***************************************************************************)
\* SubsystemManager::SubsystemManager
NewSubsystemManager ==
  [m_subsystems |-> <<>>, m_faultManager |-> NewFaultManager, queue |-> <<>>]

\* SubsystemManager::registerSubsystem
MgrRegisterSubsystem(g, id, subsystem) ==
  IF id \in DOMAIN g.m_subsystems THEN g
  ELSE [g EXCEPT !.m_subsystems = Put(@, id, subsystem)]

(***************************************************************************)
(* The queries of FaultManager, UptimeTracker, TrendAnalyzer and           *)
(* SubsystemManager (SpecQueries).  A query is a const member function: it *)
(* reads a QMap with contains(), value() or the const operator[], none of  *)
(* which inserts.  A query operator returns the result together with the   *)
(* component as the call leaves it; fn records the last query.             *)
(***************************************************************************)
\* operator[] of a QMap that is not const: a missing key is inserted with
\* a default-constructed value
InsertingLookup(map, key, default) ==
  [value |-> ValueOr(map, key, default),
   map |-> IF key \in DOMAIN map THEN map ELSE Put(map, key, default)]

\* QMap::value(key, default), and contains(key) followed by the const
\* operator[]
ConstLookup(map, key, default) ==
  [value |-> ValueOr(map, key, default), map |-> map]

\* UptimeRecord()
NewUptimeRecord ==
  [startTime |-> 0, totalUptimeMs |-> 0, totalDowntimeMs |-> 0,
   currentState |-> "UNKNOWN", lastStateChange |-> 0, stateTransitions |-> 0]

\* FaultManager::getActiveFaults(subsystemId), the order of the list left out
GetActiveFaults(m, subsystemId) ==
  {m.m_activeFaults[k] : k \in {x \in DOMAIN m.m_activeFaults :
                                  m.m_activeFaults[x].subsystemId = subsystemId}}

\* FaultManager::getFaultHistory(subsystemId, maxCount): newest first
RECURSIVE GetFaultHistory(_, _, _, _)
GetFaultHistory(m, subsystemId, maxCount, i) ==
  IF i < 1 \/ maxCount <= 0 THEN <<>>
  ELSE IF m.m_faultHistory[i].subsystemId = subsystemId
    THEN <<m.m_faultHistory[i]>>
           \o GetFaultHistory(m, subsystemId, maxCount - 1, i - 1)
  ELSE GetFaultHistory(m, subsystemId, maxCount, i - 1)

QueriesFm == {"getActiveFaults", "getFaultHistory", "estimateMTBF"}

\* A query of FaultManager
QueryFm(m, op, subsystemId, argument) ==
  CASE op = "getActiveFaults" ->
         [result |-> GetActiveFaults(m, subsystemId), after |-> m]
    [] op = "getFaultHistory" ->
         [result |-> GetFaultHistory(m, subsystemId, argument,
                                     Len(m.m_faultHistory)),
          after |-> m]
    [] op = "estimateMTBF" ->
         [result |-> EstimateMTBF(m, subsystemId),
          after |-> [m EXCEPT !.m_subsystemFaultCounts =
                                 ConstLookup(@, subsystemId, 0).map]]

QueriesUt == {"getSubsystemUptime", "getSubsystemAvailability",
              "getSubsystemDowntimeMs", "getStateTransitions", "getUptimeRecord"}

\* A getter of UptimeTracker
QueryUt(t, op, subsystemId) ==
  LET look == ConstLookup(t.m_records, subsystemId, NewUptimeRecord)
  IN  [result |->
         CASE op = "getSubsystemUptime" -> GetSubsystemUptime(t, subsystemId)
           [] op = "getSubsystemAvailability" ->
                GetSubsystemAvailability(t, subsystemId)
           [] op = "getSubsystemDowntimeMs" -> GetSubsystemDowntimeMs(t, subsystemId)
           [] op = "getStateTransitions" -> GetStateTransitions(t, subsystemId)
           [] op = "getUptimeRecord" -> look.value,
       after |-> [t EXCEPT !.m_records = look.map]]

QueriesTa == {"analyzeTrend", "predictValue", "isAnomaly", "getDataPoints"}

\* A query of TrendAnalyzer
QueryTa(a, op, subsystemId, parameter, argument) ==
  LET unit == ConstLookup(a.m_data, subsystemId, <<>>)
      series == ConstLookup(unit.value, parameter, <<>>)
  IN  [result |->
         CASE op = "analyzeTrend" -> AnalyzeTrend(a, subsystemId, parameter)
           [] op = "predictValue" ->
                PredictValue(a, subsystemId, parameter, argument)
           [] op = "isAnomaly" -> IsAnomaly(a, subsystemId, parameter, argument)
           [] op = "getDataPoints" ->
                GetDataPoints(a, subsystemId, parameter, argument),
       after |-> [a EXCEPT !.m_data =
                    IF subsystemId \in DOMAIN unit.map
                      THEN Put(unit.map, subsystemId, series.map)
                      ELSE unit.map]]

QueriesMgr == {"getSubsystem", "getSubsystemById"}

\* The QVariantMap of getSubsystemById
SubsystemVariant(id, s) ==
  [id |-> id, type |-> s.kind, healthState |-> s.m_healthState,
   healthScore |-> s.m_healthScore, statusMessage |-> s.m_statusMessage,
   faultCount |-> Len(s.m_activeFaults), enabled |-> s.m_enabled]

\* A RadarSubsystem* that is nullptr
NullSubsystem == [kind |-> "nullptr"]

\* SubsystemManager::getSubsystem (the pointer returned is the id of the
\* unit, nullptr is None) and getSubsystemById
QueryMgr(g, op, id) ==
  LET look == ConstLookup(g.m_subsystems, id, NullSubsystem)
  IN  [result |->
         CASE op = "getSubsystem" ->
                IF look.value.kind = NullSubsystem.kind THEN None ELSE id
           [] op = "getSubsystemById" ->
                IF look.value.kind = NullSubsystem.kind THEN Invalid
                ELSE SubsystemVariant(id, look.value),
       after |-> [g EXCEPT !.m_subsystems = look.map]]

\* What a query returns when it does not know the unit or the parameter
DefaultResult(op) ==
  CASE op = "getActiveFaults" -> {}
    [] op = "getFaultHistory" -> <<>>
    [] op = "estimateMTBF" -> NoEstimate
    [] op = "getSubsystemUptime" -> <<0, 1>>
    [] op = "getSubsystemAvailability" -> <<100, 1>>
    [] op = "getSubsystemDowntimeMs" -> 0
    [] op = "getStateTransitions" -> 0
    [] op = "getUptimeRecord" -> NewUptimeRecord
    [] op = "analyzeTrend" -> NewTrendResult
    [] op = "predictValue" -> Whole(0)
    [] op = "isAnomaly" -> FALSE
    [] op = "getDataPoints" -> <<>>
    [] op = "getSubsystem" -> None
    [] op = "getSubsystemById" -> Invalid

QryUnits == {"U1", "U9"}
QryParameters == {"temperature", "pressure"}
\* The count, the seconds or the value a query is passed beside the ids
QryArguments == {1, 65}

\* The components before the queries: each one as constructed or after one
\* call that made unit U1 (and its parameter temperature) known to it
InitQueries ==
  /\ fm \in {NewFaultManager,
            RegisterFault(NewFaultManager, FmFault(<<"U1", "F1", WARNING>>, 0))}
  /\ ut \in {NewUptimeTracker,
            UpdateState(NewUptimeTracker, "U1", "OK", TrackerStartMs)}
  /\ ta \in {NewTrendAnalyzer,
            AddDataPoint(NewTrendAnalyzer, "U1", "temperature", 50, 0)}
  /\ mgr \in {NewSubsystemManager,
             MgrRegisterSubsystem(NewSubsystemManager, "U1", NewSubsystem("Base"))}
  /\ fn = [op |-> "none"]
  /\ sub = Idle /\ ha = Idle /\ thd = Idle /\ thr = Idle /\ now = 0
  /\ pl = Idle /\ td = Idle

QryFaultManager ==
  /\ fm # Idle /\ fn # Idle
  /\ \E op \in QueriesFm, id \in QryUnits, argument \in QryArguments :
       LET q == QueryFm(fm, op, id, argument)
       IN  /\ fn' = [op |-> op, id |-> id, result |-> q.result]
           /\ fm' = q.after
  /\ UNCHANGED <<sub, ha, thd, thr, now, pl, ta, ut, td, mgr>>

QryUptimeTracker ==
  /\ ut # Idle /\ fn # Idle
  /\ \E op \in QueriesUt, id \in QryUnits :
       LET q == QueryUt(ut, op, id)
       IN  /\ fn' = [op |-> op, id |-> id, result |-> q.result]
           /\ ut' = q.after
  /\ UNCHANGED <<sub, fm, ha, thd, thr, now, pl, ta, td, mgr>>

QryTrendAnalyzer ==
  /\ ta # Idle /\ fn # Idle
  /\ \E op \in QueriesTa, id \in QryUnits, parameter \in QryParameters,
        argument \in QryArguments :
       LET q == QueryTa(ta, op, id, parameter, argument)
       IN  /\ fn' = [op |-> op, id |-> id, parameter |-> parameter,
                     result |-> q.result]
           /\ ta' = q.after
  /\ UNCHANGED <<sub, fm, ha, thd, thr, now, pl, ut, td, mgr>>

QrySubsystemManager ==
  /\ mgr # Idle /\ fn # Idle
  /\ \E op \in QueriesMgr, id \in QryUnits :
       LET q == QueryMgr(mgr, op, id)
       IN  /\ fn' = [op |-> op, id |-> id, result |-> q.result]
           /\ mgr' = q.after
  /\ UNCHANGED <<sub, fm, ha, thd, thr, now, pl, ta, ut, td>>

NextQueries ==
  \/ QryFaultManager
  \/ QryUptimeTracker
  \/ QryTrendAnalyzer
  \/ QrySubsystemManager

SpecQueries == InitQueries /\ [][NextQueries]_vars

(***************************************************************************)
(* SubsystemManager: a registered unit's fault signals on their way to the *)
(* FaultManager (SpecManager)                                              *)
(*                                                                         *)
(* connectSubsystemSignals connects faultOccurred to                       *)
(* onSubsystemFaultOccurred with Qt::QueuedConnection, and faultCleared to *)
(* a lambda, also queued, that posts the FaultManager's clearFault with a  *)
(* second queued invokeMethod.  mgr.queue is the event queue of the        *)
(* manager's thread: the deliveries in the order they were posted.         *)
(***************************************************************************)
MgrUnit == "U1"

\* The unit's posted health passes are its own events: they read the fault
\* lists and change neither them nor the manager, and are left out here.
WithUnit(g, unit) == [g EXCEPT !.m_subsystems[MgrUnit] = [unit EXCEPT !.posted = 0]]

Post(g, delivery) == [g EXCEPT !.queue = Append(@, delivery)]

ActiveCodes(faults) == {faults[i].code : i \in 1..Len(faults)}

\* FaultManager::getCriticalFaultCount
GetCriticalFaultCount(m) ==
  Cardinality({k \in DOMAIN m.m_activeFaults :
                 m.m_activeFaults[k].severity \in {CRITICAL, FATAL}})

InitManager ==
  /\ mgr = MgrRegisterSubsystem(NewSubsystemManager, MgrUnit, NewSubsystem("Base"))
             @@ [calls |-> 0]
  /\ now = 0
  /\ sub = Idle /\ fm = Idle /\ ha = Idle /\ thd = Idle /\ thr = Idle
  /\ fn = Idle /\ pl = Idle /\ ta = Idle /\ ut = Idle /\ td = Idle

\* RadarSubsystem::addFault on the registered unit: emits faultOccurred when
\* the code was not active yet
MgrAddFault ==
  /\ mgr # Idle /\ mgr.calls < MaxMgrCalls
  /\ \E fault \in BaseFaults :
       LET unit == mgr.m_subsystems[MgrUnit]
           added == fault.code \notin ActiveCodes(unit.m_activeFaults)
           g == [WithUnit(mgr, AddFault(unit, fault)) EXCEPT !.calls = @ + 1]
       IN  mgr' = IF added THEN Post(g, <<"faultOccurred", MgrUnit, fault.code>>) ELSE g
  /\ UNCHANGED <<sub, fm, ha, thd, thr, fn, now, pl, ta, ut, td>>

\* RadarSubsystem::clearFault on the registered unit: emits faultCleared
\* when the code was active
MgrClearFault ==
  /\ mgr # Idle /\ mgr.calls < MaxMgrCalls
  /\ \E code \in {f.code : f \in BaseFaults} :
       LET unit == mgr.m_subsystems[MgrUnit]
           cleared == code \in ActiveCodes(unit.m_activeFaults)
           g == [WithUnit(mgr, ClearFault(unit, code)) EXCEPT !.calls = @ + 1]
       IN  mgr' = IF cleared THEN Post(g, <<"faultCleared", MgrUnit, code>>) ELSE g
  /\ UNCHANGED <<sub, fm, ha, thd, thr, fn, now, pl, ta, ut, td>>

\* RadarSubsystem::clearAllFaults on the registered unit: emits faultsChanged
\* only, which the manager does not forward to the FaultManager
MgrClearAllFaults ==
  /\ mgr # Idle /\ mgr.calls < MaxMgrCalls
  /\ mgr' = [WithUnit(mgr, ClearAllFaults(mgr.m_subsystems[MgrUnit]))
               EXCEPT !.calls = @ + 1]
  /\ UNCHANGED <<sub, fm, ha, thd, thr, fn, now, pl, ta, ut, td>>

\* RadarSubsystem::reset on the registered unit: emits healthChanged,
\* faultsChanged and telemetryChanged
MgrReset ==
  /\ mgr # Idle /\ mgr.calls < MaxMgrCalls
  /\ mgr' = [WithUnit(mgr, Reset(mgr.m_subsystems[MgrUnit])) EXCEPT !.calls = @ + 1]
  /\ UNCHANGED <<sub, fm, ha, thd, thr, fn, now, pl, ta, ut, td>>

\* SubsystemManager::onSubsystemFaultOccurred: the fault is registered with
\* the severity WARNING whatever its severity in the unit
OnSubsystemFaultOccurred(g, subsystemId, faultCode) ==
  [g EXCEPT !.m_faultManager =
     RegisterFault(@, FmFault(<<subsystemId, faultCode, WARNING>>, now))]

\* The event loop of the manager's thread delivers the oldest queued call
MgrDeliver ==
  /\ mgr # Idle /\ mgr.queue # <<>>
  /\ LET head == Head(mgr.queue)
         g == [mgr EXCEPT !.queue = Tail(@)]
     IN  mgr' =
           CASE head[1] = "faultOccurred" ->
                  OnSubsystemFaultOccurred(g, head[2], head[3])
             [] head[1] = "faultCleared" ->
                  Post(g, <<"clearFault", head[2], head[3]>>)
             [] head[1] = "clearFault" ->
                  [g EXCEPT !.m_faultManager = FmClearFault(@, head[3], head[2])]
  /\ UNCHANGED <<sub, fm, ha, thd, thr, fn, now, pl, ta, ut, td>>

NextManager ==
  \/ MgrAddFault
  \/ MgrClearFault
  \/ MgrClearAllFaults
  \/ MgrReset
  \/ MgrDeliver

SpecManager == InitManager /\ [][NextManager]_vars

(***************************************************************************)
(* SubsystemManager: the system health over the units on the canvas        *)
(* (SpecSystem)                                                            *)
(*                                                                         *)
(* Scores are in hundredths of a point, as in the units.  The compute      *)
(* functions of a unit are virtual, so a unit may hold any state with any  *)
(* score of [0, 100]; SysViews has both ends of the range, two             *)
(* neighbouring scores, and units switched off before and after their own  *)
(* pass.                                                                   *)
(* ActiveSubsystemModel::m_activeIds and SubsystemListModel::m_onCanvasIds *)
(* are written together and are one set here.                              *)
(***************************************************************************)
SYSTEM_SCORE_EPSILON == 1

SysUnits == {"U1", "U2"}
\* <<m_enabled, m_healthState, m_healthScore>> of a unit
SysViews ==
  {<<TRUE, "UNKNOWN", SCORE_FULL>>, <<TRUE, "OK", SCORE_FULL>>,
   <<TRUE, "OK", SCORE_FULL - 1>>, <<TRUE, "DEGRADED", SCORE_FULL - 1>>,
   <<TRUE, "DEGRADED", 0>>, <<TRUE, "FAIL", 0>>,
   <<FALSE, "UNKNOWN", SCORE_FULL>>, <<FALSE, "FAIL", 0>>}

\* The fields of SubsystemManager that computeSystemHealth reads and
\* writes, as the constructor leaves them, and what the last pass did
NewSystemHealth ==
  [m_onCanvasIds |-> {},
   m_systemHealthState |-> "UNKNOWN",
   m_systemHealthScore |-> Whole(SCORE_FULL),
   m_cachedHealthyCount |-> 0,
   m_cachedDegradedCount |-> 0,
   m_cachedFailedCount |-> 0,
   emitted |-> FALSE,
   fresh |-> FALSE,
   passParity |-> 0]

\* ActiveSubsystemModel::addToCanvas through SubsystemManager::addToCanvas
AddToCanvas(g, id) ==
  IF id \notin DOMAIN g.m_subsystems THEN g
  ELSE [g EXCEPT !.m_onCanvasIds = @ \cup {id}]

\* SubsystemManager::removeFromCanvas
RemoveFromCanvas(g, id) == [g EXCEPT !.m_onCanvasIds = @ \ {id}]

\* SubsystemManager::unregisterSubsystem (the FaultManager's part is in
\* FmClearAllFaultsOf)
MgrUnregisterSubsystem(g, id) ==
  IF id \notin DOMAIN g.m_subsystems THEN g
  ELSE [RemoveFromCanvas(g, id) EXCEPT !.m_subsystems = Drop(@, {id})]

\* The units the loops of a pass look at
OnCanvas(g) == {id \in DOMAIN g.m_subsystems : id \in g.m_onCanvasIds}

\* SubsystemManager::updateCachedCounts
UpdateCachedCounts(g) ==
  LET in(state) == Cardinality({id \in OnCanvas(g) :
                                  g.m_subsystems[id].m_healthState = state})
  IN  [g EXCEPT !.m_cachedHealthyCount = in("OK"),
                !.m_cachedDegradedCount = in("DEGRADED"),
                !.m_cachedFailedCount = in("FAIL")]

RECURSIVE TotalScore(_, _)
TotalScore(g, ids) ==
  IF ids = {} THEN 0
  ELSE LET id == CHOOSE x \in ids : TRUE
       IN  g.m_subsystems[id].m_healthScore + TotalScore(g, ids \ {id})

\* computeSystemHealth: the overall state, with the Degraded test first
OverallStateDegradedFirst(failed, degraded, enabledCount) ==
  IF degraded > 0 THEN "DEGRADED"
  ELSE IF failed > 0 THEN "FAIL"
  ELSE IF enabledCount > 0 THEN "OK"
  ELSE "UNKNOWN"

\* computeSystemHealth: the overall state from the cached counts
OverallState(failed, degraded, enabledCount) ==
  IF failed > 0 THEN "FAIL"
  ELSE IF degraded > 0 THEN "DEGRADED"
  ELSE IF enabledCount > 0 THEN "OK"
  ELSE "UNKNOWN"

EnabledOnCanvas(g) == {id \in OnCanvas(g) : g.m_subsystems[id].m_enabled}

\* computeSystemHealth: the average score of the enabled units on the canvas
MeanScore(g) ==
  LET enabled == EnabledOnCanvas(g)
  IN  IF enabled = {} THEN Whole(SCORE_FULL)
      ELSE Q(TotalScore(g, enabled), Cardinality(enabled))

\* qAbs(newScore - m_systemHealthScore) > 0.01 on doubles.  The test is
\* exact but for two scores exactly 0.01 apart, where the rounding of the
\* operands decides: 100 and 99.99 are the one such pair among the scores
\* here, their difference as doubles is 0.010000000000005 and the test is
\* true.
ScoreMoved(newScore, oldScore) ==
  LET distance == QAbs(QSub(newScore, oldScore))
  IN  \/ QLess(Whole(SYSTEM_SCORE_EPSILON), distance)
      \/ /\ distance = Whole(SYSTEM_SCORE_EPSILON)
         /\ {newScore, oldScore} = {Whole(SCORE_FULL), Whole(SCORE_FULL - 1)}

\* SubsystemManager::computeSystemHealth
MgrComputeSystemHealth(g) ==
  LET c == UpdateCachedCounts(g)
      newState == OverallState(c.m_cachedFailedCount, c.m_cachedDegradedCount,
                               Cardinality(EnabledOnCanvas(c)))
      newScore == MeanScore(c)
      changed == \/ newState # c.m_systemHealthState
                 \/ ScoreMoved(newScore, c.m_systemHealthScore)
  IN  IF c.m_onCanvasIds = {}
        THEN [c EXCEPT !.m_systemHealthState = "UNKNOWN",
                       !.m_systemHealthScore = Whole(SCORE_FULL),
                       !.emitted = TRUE]
        ELSE IF changed
          THEN [c EXCEPT !.m_systemHealthState = newState,
                         !.m_systemHealthScore = newScore,
                         !.emitted = TRUE]
          ELSE [c EXCEPT !.emitted = FALSE]

InitSystem ==
  /\ mgr = NewSubsystemManager @@ NewSystemHealth
  /\ sub = Idle /\ fm = Idle /\ ha = Idle /\ thd = Idle /\ thr = Idle
  /\ fn = Idle /\ now = 0 /\ pl = Idle /\ ta = Idle /\ ut = Idle /\ td = Idle

Stale(g) == [g EXCEPT !.fresh = FALSE]

SysRegisterSubsystem ==
  /\ mgr # Idle
  /\ \E id \in SysUnits :
       mgr' = Stale(MgrRegisterSubsystem(mgr, id, NewSubsystem("Base")))
  /\ UNCHANGED <<sub, fm, ha, thd, thr, fn, now, pl, ta, ut, td>>

SysUnregisterSubsystem ==
  /\ mgr # Idle
  /\ \E id \in SysUnits : mgr' = Stale(MgrUnregisterSubsystem(mgr, id))
  /\ UNCHANGED <<sub, fm, ha, thd, thr, fn, now, pl, ta, ut, td>>

SysAddToCanvas ==
  /\ mgr # Idle
  /\ \E id \in SysUnits : mgr' = Stale(AddToCanvas(mgr, id))
  /\ UNCHANGED <<sub, fm, ha, thd, thr, fn, now, pl, ta, ut, td>>

SysRemoveFromCanvas ==
  /\ mgr # Idle
  /\ \E id \in SysUnits : mgr' = Stale(RemoveFromCanvas(mgr, id))
  /\ UNCHANGED <<sub, fm, ha, thd, thr, fn, now, pl, ta, ut, td>>

\* A registered unit resolves a new state and score, or is switched on or
\* off
SysUnitChanges ==
  /\ mgr # Idle
  /\ \E id \in DOMAIN mgr.m_subsystems, view \in SysViews :
       mgr' = Stale([mgr EXCEPT !.m_subsystems[id].m_enabled = view[1],
                                !.m_subsystems[id].m_healthState = view[2],
                                !.m_subsystems[id].m_healthScore = view[3]])
  /\ UNCHANGED <<sub, fm, ha, thd, thr, fn, now, pl, ta, ut, td>>

\* One pass of computeSystemHealth
SysComputeSystemHealth ==
  /\ mgr # Idle
  /\ mgr' = [MgrComputeSystemHealth(mgr) EXCEPT !.fresh = TRUE,
                                               !.passParity = 1 - @]
  /\ UNCHANGED <<sub, fm, ha, thd, thr, fn, now, pl, ta, ut, td>>

NextSystem ==
  \/ SysRegisterSubsystem
  \/ SysUnregisterSubsystem
  \/ SysAddToCanvas
  \/ SysRemoveFromCanvas
  \/ SysUnitChanges
  \/ SysComputeSystemHealth

SpecSystem == InitSystem /\ [][NextSystem]_vars

(***************************************************************************)
(* FaultInjector: src/src/simulator/FaultInjector.cpp (SpecInjector)       *)
(* The injector works on the units of its SubsystemManager; it is kept     *)
(* with the manager in mgr.injector.  m_recoveryTimers holds the keys whose *)
(* timer runs, m_scheduledFaults the configurations whose timer runs; a    *)
(* running timer may time out at any time.  The unit's signals to the      *)
(* manager are as in SpecManager and are left out here.                    *)
(***************************************************************************)
NewFaultInjector ==
  [m_activeFaults |-> <<>>, m_recoveryTimers |-> {}, m_scheduledFaults |-> {}]

FaultConfig(subsystemId, faultCode, severity, durationMs, delayMs, autoRecover) ==
  [subsystemId |-> subsystemId, faultCode |-> faultCode, severity |-> severity,
   durationMs |-> durationMs, delayMs |-> delayMs, autoRecover |-> autoRecover]

\* What moc registers for RadarSubsystem: its signals and its one slot.
\* addFault is a plain protected member function.
InvokableMethods ==
  {"onUpdate", "healthChanged", "telemetryChanged", "faultsChanged", "enabledChanged",
   "faultOccurred", "faultCleared", "stateTransition"}

\* QMetaObject::invokeMethod(subsystem, "addFault", Q_ARG(FaultCode, fault)):
\* a member that is not in the meta-object is not called
InvokeMethod(unit, member, fault) ==
  IF member \notin InvokableMethods THEN unit
  ELSE IF member = "addFault" THEN AddFault(unit, fault)
  ELSE unit

\* The unit of a call, with its posted passes left out
InjUnit(g, subsystemId, unit) ==
  [g EXCEPT !.m_subsystems[subsystemId] = [unit EXCEPT !.posted = 0]]

\* FaultInjector::doInjectFault
DoInjectFault(g, config) ==
  LET key == MakeFaultKey(config.subsystemId, config.faultCode)
      fault == [code |-> config.faultCode, severity |-> config.severity, active |-> TRUE]
      h == [g EXCEPT !.injector.m_activeFaults = Put(@, key, config),
                     !.injector.m_recoveryTimers =
                        IF config.autoRecover /\ config.durationMs > 0
                          THEN @ \cup {key} ELSE @]
  IN  IF key \in DOMAIN g.injector.m_activeFaults THEN g
      ELSE IF config.subsystemId \in DOMAIN g.m_subsystems
        THEN InjUnit(h, config.subsystemId,
                     InvokeMethod(g.m_subsystems[config.subsystemId], "addFault", fault))
        ELSE h

\* FaultInjector::scheduleFault
ScheduleFault(g, subsystemId, faultCode, delayMs) ==
  [g EXCEPT !.injector.m_scheduledFaults =
     @ \cup {FaultConfig(subsystemId, faultCode, WARNING, 0, delayMs, FALSE)}]

\* FaultInjector::injectFault
InjectFault(g, subsystemId, faultCode) ==
  DoInjectFault(g, FaultConfig(subsystemId, faultCode, WARNING, 0, 0, FALSE))

\* FaultInjector::injectFaultWithConfig
InjectFaultWithConfig(g, config) ==
  IF config.delayMs > 0
    THEN ScheduleFault(g, config.subsystemId, config.faultCode, config.delayMs)
    ELSE DoInjectFault(g, config)

\* FaultInjector::onScheduledFault for the timer of config
OnScheduledFault(g, config) ==
  DoInjectFault([g EXCEPT !.injector.m_scheduledFaults = @ \ {config}], config)

\* FaultInjector::clearFault
InjectorClearFault(g, subsystemId, faultCode) ==
  LET key == MakeFaultKey(subsystemId, faultCode)
      h == [g EXCEPT !.injector.m_activeFaults = Drop(@, {key}),
                     !.injector.m_recoveryTimers = @ \ {key}]
  IN  IF key \notin DOMAIN g.injector.m_activeFaults THEN g
      ELSE IF subsystemId \in DOMAIN g.m_subsystems
        THEN InjUnit(h, subsystemId, ClearFault(g.m_subsystems[subsystemId], faultCode))
        ELSE h

\* FaultInjector::onFaultTimeout for the timer of key
OnFaultTimeout(g, key) ==
  IF key \in DOMAIN g.injector.m_activeFaults
    THEN InjectorClearFault(g, g.injector.m_activeFaults[key].subsystemId,
                            g.injector.m_activeFaults[key].faultCode)
    ELSE g

\* FaultInjector::hasFault
HasFault(g, subsystemId, faultCode) ==
  MakeFaultKey(subsystemId, faultCode) \in DOMAIN g.injector.m_activeFaults

InjCodes == {"F1", "F2"}
InjConfigs ==
  {FaultConfig(MgrUnit, code, severity, durationMs, delayMs, autoRecover) :
     code \in InjCodes, severity \in {WARNING, CRITICAL}, durationMs \in {0, 30000},
     delayMs \in {0, 1000}, autoRecover \in BOOLEAN}

InitInjector ==
  /\ mgr = MgrRegisterSubsystem(NewSubsystemManager, MgrUnit, NewSubsystem("Base"))
             @@ [injector |-> NewFaultInjector, calls |-> 0]
  /\ now = 0
  /\ sub = Idle /\ fm = Idle /\ ha = Idle /\ thd = Idle /\ thr = Idle
  /\ fn = Idle /\ pl = Idle /\ ta = Idle /\ ut = Idle /\ td = Idle

InjCallable == mgr # Idle /\ mgr.calls < MaxInjCalls

InjCalled(g) == [g EXCEPT !.calls = @ + 1]

InjInjectFault ==
  /\ InjCallable
  /\ \E code \in InjCodes : mgr' = InjCalled(InjectFault(mgr, MgrUnit, code))
  /\ UNCHANGED <<sub, fm, ha, thd, thr, fn, now, pl, ta, ut, td>>

InjInjectFaultWithConfig ==
  /\ InjCallable
  /\ \E config \in InjConfigs : mgr' = InjCalled(InjectFaultWithConfig(mgr, config))
  /\ UNCHANGED <<sub, fm, ha, thd, thr, fn, now, pl, ta, ut, td>>

InjClearFault ==
  /\ InjCallable
  /\ \E code \in InjCodes : mgr' = InjCalled(InjectorClearFault(mgr, MgrUnit, code))
  /\ UNCHANGED <<sub, fm, ha, thd, thr, fn, now, pl, ta, ut, td>>

\* The timer of a scheduled fault times out
InjScheduledFault ==
  /\ mgr # Idle
  /\ \E config \in mgr.injector.m_scheduledFaults : mgr' = OnScheduledFault(mgr, config)
  /\ UNCHANGED <<sub, fm, ha, thd, thr, fn, now, pl, ta, ut, td>>

\* A recovery timer times out
InjFaultTimeout ==
  /\ mgr # Idle
  /\ \E key \in mgr.injector.m_recoveryTimers : mgr' = OnFaultTimeout(mgr, key)
  /\ UNCHANGED <<sub, fm, ha, thd, thr, fn, now, pl, ta, ut, td>>

\* RadarSubsystem::reset on the unit
InjUnitReset ==
  /\ InjCallable
  /\ mgr' = InjCalled(InjUnit(mgr, MgrUnit, Reset(mgr.m_subsystems[MgrUnit])))
  /\ UNCHANGED <<sub, fm, ha, thd, thr, fn, now, pl, ta, ut, td>>

\* RadarSubsystem::updateData on the unit, up to the return of its pass
InjUnitUpdateData ==
  /\ InjCallable
  /\ LET unit == UpdateData(mgr.m_subsystems[MgrUnit], <<>>)
     IN  mgr' = InjCalled(InjUnit(mgr, MgrUnit,
                               IF unit.pc = "emit" THEN FinishPass(unit) ELSE unit))
  /\ UNCHANGED <<sub, fm, ha, thd, thr, fn, now, pl, ta, ut, td>>

NextInjector ==
  \/ InjInjectFault
  \/ InjInjectFaultWithConfig
  \/ InjClearFault
  \/ InjScheduledFault
  \/ InjFaultTimeout
  \/ InjUnitReset
  \/ InjUnitUpdateData

SpecInjector == InitInjector /\ [][NextInjector]_vars

(***************************************************************************)
(* Properties of a unit's health computation (SpecUnit)                    *)
(***************************************************************************)
\* A pass of processHealthData has run in this step
PassStep == sub # Idle /\ sub' # Idle /\ sub'.passParity # sub.passParity

\* The telemetry thresholds of a unit's parameters
AnyCritical(s) ==
  \E p \in DOMAIN s.telemetry : IsCritical(PsuMeta[p], s.telemetry[p])

AnyWarning(s) ==
  \E p \in DOMAIN s.telemetry : IsWarning(PsuMeta[p], s.telemetry[p])

\* The ordered rule of the health engine for an enabled unit
RuleState(s) ==
  IF HasSeverity(s.m_activeFaults, {CRITICAL, FATAL}) \/ AnyCritical(s) THEN "FAIL"
  ELSE IF HasSeverity(s.m_activeFaults, {WARNING}) \/ AnyWarning(s) THEN "DEGRADED"
  ELSE "OK"

\* C1: the state computeHealthState resolves for an enabled unit is Fail iff
\* a Critical/Fatal fault is active or a parameter breaches its critical
\* threshold, Degraded iff no Fail condition holds and a Warning fault or a
\* warning-threshold breach does, and OK otherwise.
C1_StateFollowsRule ==
  (fn # Idle /\ fn.m_enabled) => fn.state = RuleState(FnUnit(fn))

\* C2: the health score of a unit lies in [0, 100] in every reachable state
\* of the object, and so does every value its computeHealthScore returns.
C2_ScoreInRange ==
  /\ sub # Idle => (0 <= sub.m_healthScore /\ sub.m_healthScore <= SCORE_FULL)
  /\ fn # Idle => (0 <= fn.score /\ fn.score <= SCORE_FULL)

\* More fault penalties than the full score are active and a pass has
\* clamped the score to 0
C2_Witness ==
  /\ sub # Idle /\ sub.kind = "Base"
  /\ FaultPenalties(sub.m_activeFaults) > SCORE_FULL
  /\ sub.m_healthScore = 0

\* C8: requests made while a pass is in progress are held as one pending
\* flag; when the pass ends with k >= 1 requests it posts exactly one further
\* processHealthData and clears the flag, with none it posts nothing; the
\* posted call, once delivered, enters the computation.
C8_CoalescedIntoOneRun ==
  /\ [](sub # Idle => (sub.m_healthUpdatePending <=> sub.requests >= 1))
  /\ [](sub # Idle /\ sub.requests >= 1 => sub.m_processingHealth)
  /\ [][(sub # Idle /\ sub.pc = "emit" /\ sub'.pc = "idle") =>
          /\ sub'.posted = sub.posted + (IF sub.requests >= 1 THEN 1 ELSE 0)
          /\ ~sub'.m_healthUpdatePending
          /\ ~sub'.m_processingHealth]_vars
  /\ [][(sub # Idle /\ sub.kind = "Base" /\ sub.pc = "idle"
           /\ sub'.posted = sub.posted - 1) => PassStep]_vars

\* Two requests arrived during one pass
C8_Witness ==
  sub # Idle /\ sub.pc = "emit" /\ sub.requests = 2 /\ sub.m_healthUpdatePending

\* C10: a pass emits stateTransition exactly when the state it resolved
\* differs from the stored one, notifies healthChanged (at once or debounced)
\* only when the state changed or the score moved by more than 0.1, and a
\* pass over inputs whose results are already stored changes nothing and
\* notifies nothing.
C10_NotifiesOnlyOnChange ==
  [][PassStep =>
       LET stateChanged == sub'.m_healthState # sub.m_healthState
           scoreMoved == Abs(sub'.m_healthScore - sub.m_healthScore) > NOISE_FLOOR
           stored == /\ sub.m_healthState = ComputeHealthState(sub)
                     /\ sub.m_healthScore = ComputeHealthScore(sub)
                     /\ sub.m_statusMessage = ComputeStatusMessage(sub)
       IN  /\ sub'.lastTransition <=> stateChanged
           /\ sub'.lastNotify # "none" => (stateChanged \/ scoreMoved)
           /\ stored => /\ sub'.m_healthState = sub.m_healthState
                        /\ sub'.m_healthScore = sub.m_healthScore
                        /\ sub'.m_statusMessage = sub.m_statusMessage
                        /\ ~sub'.lastTransition
                        /\ sub'.lastNotify = "none"]_vars

\* A pass moved the score by an Info fault's penalty without a change of
\* state and notified healthChanged
C10_Witness ==
  /\ sub # Idle /\ sub.m_healthState = "OK" /\ sub.m_healthScore = SCORE_FULL - PENALTY_INFO
  /\ ~sub.lastTransition /\ sub.lastNotify # "none"

(***************************************************************************)
(* Properties of the fault ledgers (SpecLedger)                            *)
(***************************************************************************)
\* The active records of the manager for a (subsystemId, code) pair
ActiveOf(m, p) ==
  {k \in DOMAIN m.m_activeFaults :
     m.m_activeFaults[k].subsystemId = p[1] /\ m.m_activeFaults[k].code = p[2]}

\* A call on the manager has been made in this step
FmCallStep == fm # Idle /\ fm' # Idle /\ fm'.turn # fm.turn

\* C3: registerFault for a pair that is already active changes neither the
\* active set, the history, the per-unit count nor the last-fault time and
\* emits nothing; the manager never holds two active records of one pair and
\* a unit never holds two active faults with one code.
C3_DuplicateRegistrationIsNoOp ==
  /\ [][\A p \in FmPairs :
          (FmCallStep /\ fm'.call = <<"registerFault", p[1], p[2]>> /\ ActiveOf(fm, p) # {}) =>
             /\ fm'.m_activeFaults = fm.m_activeFaults
             /\ fm'.m_faultHistory = fm.m_faultHistory
             /\ fm'.m_subsystemFaultCounts = fm.m_subsystemFaultCounts
             /\ fm'.m_subsystemLastFault = fm.m_subsystemLastFault
             /\ fm'.emitted = <<>>]_vars
  /\ [](fm # Idle => \A p \in FmPairs : Cardinality(ActiveOf(fm, p)) <= 1)
  /\ [](sub # Idle =>
          \A i, j \in 1..Len(sub.m_activeFaults) :
             sub.m_activeFaults[i].code = sub.m_activeFaults[j].code => i = j)

\* A second registration of an active pair, at a later time and with another
\* severity, has returned without effect
C3_Witness ==
  /\ fm # Idle /\ fm.call = <<"registerFault", "U1", "F1">> /\ fm.emitted = <<>>
  /\ Len(fm.m_faultHistory) = 1
  /\ fm.m_faultHistory[1].timestamp < now
  /\ ActiveOf(fm, <<"U1", "F1">>) # {}

\* C4: a call that clears active faults of the manager moves their records
\* to the history (the history grows by the records that left the active
\* set), and a registration leaves the history as it is.
C4_ClearCreatesHistoryEntry ==
  [][FmCallStep =>
       LET cleared == Cardinality(DOMAIN fm.m_activeFaults \ DOMAIN fm'.m_activeFaults)
       IN  Len(fm'.m_faultHistory) = Len(fm.m_faultHistory) + cleared]_vars

(***************************************************************************)
(* Properties of the throttle (SpecThrottle, SpecThrottleFair)             *)
(***************************************************************************)
\* m_throttleTimer has timed out in this step
TimeoutStep == thr # Idle /\ thr' # thr /\ thr'.last = "onThrottledUpdate"

\* computeSystemHealth has run in this step
SystemPassStep == thr # Idle /\ thr'.passes # thr.passes

\* C5: while the throttle timer is armed an update is pending; its expiry
\* after N >= 1 scheduleHealthUpdate calls runs computeSystemHealth exactly
\* once, clears the flag and leaves the timer stopped; a call made while the
\* timer is armed changes neither the time left on it nor its interval.
C5_OnePassPerWindow ==
  /\ [](thr # Idle /\ thr.timerLeft # None =>
          thr.m_healthUpdatePending /\ thr.windowCalls >= 1)
  /\ [][TimeoutStep =>
          /\ thr'.passes = (thr.passes + 1) % 3
          /\ ~thr'.m_healthUpdatePending
          /\ thr'.timerLeft = None]_vars
  /\ [][(thr # Idle /\ thr' # thr /\ thr'.last = "scheduleHealthUpdate"
           /\ thr.timerLeft # None) =>
          /\ thr'.timerLeft = thr.timerLeft
          /\ thr'.armedWith = thr.armedWith]_vars

\* The timer expired after three calls in its window and one pass ran
C5_Witness ==
  /\ thr # Idle /\ thr.last = "onThrottledUpdate" /\ thr.windowCalls = 3
  /\ thr.sinceTimerPass = 0 /\ ~thr.m_healthUpdatePending

\* C6 as stated: whenever an update is pending the throttle timer is armed.
C6_PendingImpliesArmed ==
  (thr # Idle /\ thr.m_healthUpdatePending) => thr.timerLeft # None

\* C6: whenever an update is pending the throttle timer is armed, unless
\* stopUpdates has stopped it since it was armed; and a pending update leads
\* to a pass (which clears the flag) or to stopUpdates stopping the timer.
C6_PendingArmedUnlessStopped ==
  /\ []((thr # Idle /\ thr.m_healthUpdatePending) =>
          (thr.timerLeft # None \/ thr.stopped))
  /\ ((thr # Idle /\ thr.m_healthUpdatePending)
        ~> (thr # Idle /\ (~thr.m_healthUpdatePending \/ thr.stopped)))

\* stopUpdates has stopped the armed timer and the update is still pending
C6_Witness ==
  /\ thr # Idle /\ thr.m_healthUpdatePending /\ thr.timerLeft = None
  /\ thr.stopped /\ thr.last = "stopUpdates"

\* C7 as stated: any two executions of computeSystemHealth are at least one
\* throttle interval (never less than MIN_UPDATE_INTERVAL) apart.
C7_PassesOneIntervalApart ==
  [][(SystemPassStep /\ thr.sinceCompute # None) =>
        thr.sinceCompute >= MIN_UPDATE_INTERVAL]_vars

\* C7: two executions of computeSystemHealth run by the throttle timer are
\* apart by at least the interval the timer was armed with, which is never
\* less than MIN_UPDATE_INTERVAL.
C7_TimerPassesOneIntervalApart ==
  [][(TimeoutStep /\ SystemPassStep) =>
        /\ thr.armedWith >= MIN_UPDATE_INTERVAL
        /\ thr.sinceTimerPass # None => thr.sinceTimerPass >= thr.armedWith]_vars

\* A second pass of the timer, armed with the smallest interval after
\* setUpdateInterval(0), has run
C7_Witness ==
  /\ thr # Idle /\ thr.last = "onThrottledUpdate" /\ thr.sinceTimerPass = 0
  /\ thr.armedWith = MIN_UPDATE_INTERVAL /\ thr.passes = 2

(***************************************************************************)
(* Properties of concurrent callers (SpecThreads)                          *)
(***************************************************************************)
\* C9: at most one execution of processHealthData is in progress for a unit:
\* of two threads calling it, at most one is past the guard at any time.
C9_OneExecutionAtATime ==
  thd # Idle => Cardinality({t \in Threads : thd[t].pc # "out"}) <= 1

(***************************************************************************)
(* Properties of the data pipeline (SpecPipeline)                          *)
(***************************************************************************)
\* processQueue has dequeued an item in this step
ItemStep == pl # Idle /\ pl' # Idle /\ pl'.removed = pl.removed + 1

\* The signals of a step that report the outcome of an item
Outcomes(emitted) ==
  SelectSeq(emitted, LAMBDA e : e[1] \in {"dataProcessed", "validationError"})
Names(emitted) == {emitted[i][1] : i \in 1..Len(emitted)}

\* An item the validation stage has to reject: a field its schema requires
\* is missing, a numeric value is not finite, or a value is one of the
\* sentinel strings
MustReject(schemas, subsystemId, data) ==
  \/ ~ValidateRequired(data, ValueOr(schemas, subsystemId, <<>>))
  \/ \E p \in DOMAIN data :
       \/ data[p].t = "double" /\ data[p].c # "finite"
       \/ data[p].t = "string" /\ data[p].c \in {"NaN", "Infinity", "-Infinity"}

\* C11: one call of processQueue removes at most maxItemsPerTick (10) items
\* from the queue, whatever mix of valid and invalid items it holds.
C11_TickRemovesAtMostBatch ==
  pl # Idle => pl.removed <= maxItemsPerTick

\* C12: for an invalid item dequeued by processQueue errorCount grows by
\* exactly 1, validationError is emitted for its unit and nothing else,
\* processedCount stays, and the loop goes on with the items behind it: they
\* stay queued in their order, the invalid item takes nothing from the
\* tick's batch, and the loop takes the head of the queue whenever the batch
\* is not used up.
C12_InvalidItemCountedAndSkipped ==
  /\ [][(ItemStep /\ ~ValidateData(pl.m_validationSchemas, Head(pl.m_dataQueue).subsystemId,
                                   Head(pl.m_dataQueue).data).valid) =>
          /\ pl'.m_errorCount = pl.m_errorCount + 1
          /\ pl'.m_processedCount = pl.m_processedCount
          /\ Len(pl'.emitted) = 1
          /\ pl'.emitted[1][1] = "validationError"
          /\ pl'.emitted[1][2] = Head(pl.m_dataQueue).subsystemId
          /\ pl'.m_dataQueue = Tail(pl.m_dataQueue)
          /\ pl'.pc = "drain"
          /\ pl'.processed = IF pl.pc = "drain" THEN pl.processed ELSE 0]_vars
  /\ [][(pl # Idle /\ pl.pc = "drain" /\ pl'.last = "processQueue"
           /\ pl.m_dataQueue # <<>> /\ pl.processed < maxItemsPerTick) => ItemStep]_vars

\* In one call of processQueue an invalid item was dequeued and the valid
\* item behind it has been processed
C12_Witness ==
  /\ pl # Idle /\ pl.pc = "drain" /\ pl.removed = 2 /\ pl.processed = 1
  /\ pl.m_errorCount = 1
  /\ Names(pl.emitted) = {"dataProcessed", "healthStateComputed"}

\* C13: validateData returns valid = false for every item that misses a
\* field its schema requires, holds a non-finite numeric value or holds one
\* of the sentinel strings; in the queue such an item is counted as an error
\* and no dataProcessed, healthStateComputed or faultDetected goes out for it.
C13_RejectsNonFiniteAndSentinel ==
  /\ []((fn # Idle /\ fn.kind = "validateData"
           /\ MustReject(fn.schemas, fn.subsystemId, fn.data)) => ~fn.validation.valid)
  /\ [][(ItemStep /\ MustReject(pl.m_validationSchemas, Head(pl.m_dataQueue).subsystemId,
                                Head(pl.m_dataQueue).data)) =>
          /\ pl'.m_errorCount = pl.m_errorCount + 1
          /\ Names(pl'.emitted) = {"validationError"}]_vars

\* C14: the outcome of an item is produced before the outcome of any item
\* submitted later for the same unit: no queued item is older than the last
\* item of its unit that has its outcome, and every step of processQueue
\* that dequeues produces the outcome of the head of the queue.
C14_OutcomesInSubmissionOrder ==
  /\ [](pl # Idle =>
          \A i \in 1..Len(pl.m_dataQueue) :
             pl.m_dataQueue[i].seq > pl.done[pl.m_dataQueue[i].subsystemId])
  /\ [][ItemStep =>
          /\ Len(Outcomes(pl'.emitted)) = 1
          /\ Outcomes(pl'.emitted)[1][2] = Head(pl.m_dataQueue).subsystemId
          /\ Outcomes(pl'.emitted)[1][3] = Head(pl.m_dataQueue).seq
          /\ \A i \in 1..Len(pl'.m_dataQueue) :
               pl'.m_dataQueue[i].subsystemId = Head(pl.m_dataQueue).subsystemId =>
                 pl'.m_dataQueue[i].seq > Head(pl.m_dataQueue).seq]_vars

\* Of three submissions the first, for U01, has its outcome while the third,
\* also for U01, waits behind an item of U02
C14_Witness ==
  /\ pl # Idle /\ pl.done["U01"] = 1 /\ Len(pl.m_dataQueue) = 2
  /\ pl.m_dataQueue[1].subsystemId = "U02"
  /\ pl.m_dataQueue[2].subsystemId = "U01" /\ pl.m_dataQueue[2].seq = 3

\* The queue of a step extends the queue before it
Extends(q2, q1) == Len(q2) >= Len(q1) /\ SubSeq(q2, 1, Len(q1)) = q1

\* C15: while the pipeline is stopped its timer is not active, the counters
\* stay, no item leaves the queue, items submitted are appended, and no
\* dataProcessed or validationError goes out; start() on a running pipeline
\* and stop() on a stopped one change nothing.
C15_StoppedPipelineIsFrozen ==
  /\ [](pl # Idle => (pl.timerActive <=> pl.m_running))
  /\ [][(pl # Idle /\ ~pl.m_running /\ ~pl'.m_running) =>
          /\ pl'.m_processedCount = pl.m_processedCount
          /\ pl'.m_errorCount = pl.m_errorCount
          /\ Extends(pl'.m_dataQueue, pl.m_dataQueue)
          /\ Outcomes(pl'.emitted) = <<>>]_vars
  /\ [][(pl # Idle /\ pl'.last \in {"start", "stop"} /\ pl'.m_running = pl.m_running) =>
          pl' = [pl EXCEPT !.emitted = <<>>, !.last = pl'.last]]_vars

(***************************************************************************)
(* Properties of a unit's state across its operations (SpecUnit)           *)
(***************************************************************************)
\* A power supply with the telemetry of its constructor, enabled, without
\* faults and outside processHealthData
NominalPsu(s) ==
  /\ s.kind = "PowerSupply" /\ s.m_enabled /\ s.m_activeFaults = <<>>
  /\ s.telemetry = PsuInitialTelemetry

InputLowActive(s) ==
  \E i \in 1..Len(s.m_activeFaults) :
     s.m_activeFaults[i].code = FAULT_INPUT_LOW /\ s.m_activeFaults[i].severity = CRITICAL

\* C16: updateData with inputVoltage = 170 on a nominal power supply leaves
\* the Critical fault PSU-001 active, the state Fail and the score lower by
\* the fixed critical penalty; updateData with inputVoltage = 220 after it
\* clears the fault and the state is OK again.  Stated for the object and
\* for its compute functions applied to the inputs updateData leaves.
C16_InputLowRaisesAndClears ==
  /\ [][(sub # Idle /\ sub.pc = "idle" /\ NominalPsu(sub)
           /\ sub' = UpdateData(sub, [inputVoltage |-> 170])) =>
          /\ InputLowActive(sub')
          /\ sub'.m_healthState = "FAIL"
          /\ sub'.m_healthScore = SCORE_FULL - INPUT_VOLTAGE_CRITICAL_PENALTY]_vars
  /\ [][(sub # Idle /\ sub.kind = "PowerSupply" /\ sub.pc = "idle" /\ InputLowActive(sub)
           /\ Len(sub.m_activeFaults) = 1
           /\ sub' = UpdateData(sub, [inputVoltage |-> 220])) =>
          /\ sub'.m_activeFaults = <<>>
          /\ sub'.m_healthState = "OK"]_vars
  /\ [][(fn # Idle /\ NominalPsu(FnUnit(fn))
           /\ fn' = Computed(OnDataUpdate([FnUnit(fn) EXCEPT
                                             !.telemetry = SetValues(@, [inputVoltage |-> 170])],
                                          [inputVoltage |-> 170]))) =>
          /\ InputLowActive(FnUnit(fn'))
          /\ fn'.state = "FAIL"
          /\ fn'.score = SCORE_FULL - INPUT_VOLTAGE_CRITICAL_PENALTY]_vars

\* C17: in every reachable state a unit whose health state is Unknown is
\* disabled.
C17_UnknownImpliesDisabled ==
  sub # Idle => (sub.m_healthState = "UNKNOWN" => ~sub.m_enabled)

\* C17 (amended): every completed pass stores Unknown exactly when the unit
\* is disabled, and so does every compute function; an enabled unit comes to
\* hold Unknown only by reset(), or by setEnabled(true) on a unit that holds
\* Unknown, and holds it from its construction.
C17_UnknownUntilNextPass ==
  /\ [][PassStep => (sub'.m_healthState = "UNKNOWN" <=> ~sub.m_enabled)]_vars
  /\ [](fn # Idle => (fn.state = "UNKNOWN" <=> ~fn.m_enabled))
  /\ [][(sub # Idle /\ sub' # Idle
           /\ sub'.m_healthState = "UNKNOWN" /\ sub'.m_enabled
           /\ ~(sub.m_healthState = "UNKNOWN" /\ sub.m_enabled)) =>
          \/ sub' = Reset(sub)
          \/ sub.m_healthState = "UNKNOWN" /\ sub' = SetEnabled(sub, TRUE)]_vars

\* A pass on a disabled unit has stored Unknown with the message of a
\* disabled unit, after the unit had left Unknown
C17_Witness ==
  /\ sub # Idle /\ sub.kind = "Base" /\ ~sub.m_enabled
  /\ sub.m_healthState = "UNKNOWN" /\ sub.m_statusMessage = "Disabled"
  /\ sub.lastTransition

(***************************************************************************)
(* Properties of the bounded collections and of the manager's estimates    *)
(* (SpecLedger)                                                            *)
(***************************************************************************)
\* The collection after the entries added were inserted into history under
\* a capacity: the newest cap entries, in their order
Inserted(history, added, cap) ==
  LET all == history \o added
  IN  SubSeq(all, Max(1, Len(all) - cap + 1), Len(all))

\* The records a unit's clearAllFaults moves to its history
Moved(s) == [i \in 1..Len(s.m_activeFaults) |-> [s.m_activeFaults[i] EXCEPT !.active = FALSE]]

\* A new registration has been made on the manager in this step
RegistrationStep ==
  /\ FmCallStep /\ fm'.call[1] = "registerFault"
  /\ MakeFaultKey(fm'.call[2], fm'.call[3]) \notin DOMAIN fm.m_activeFaults

\* Faults have left the active list of the unit in this step
UnitClearStep ==
  sub # Idle /\ sub' # Idle /\ Len(sub'.m_activeFaults) < Len(sub.m_activeFaults)

\* addDataPoint has been called in this step
AddStep == ta # Idle /\ ta' # Idle /\ ta'.added # ta.added

\* The series of the analyzer
AllSeries == {<<u, q>> : u \in TaUnits, q \in TaParameters}

\* The series addDataPoint has appended to in this step
Appended(u, q) ==
  /\ Series(ta', u, q) # <<>>
  /\ Series(ta', u, q)[Len(Series(ta', u, q))].timestampMs = now
  /\ \A other \in AllSeries \ {<<u, q>>} :
        Series(ta', other[1], other[2]) = Series(ta, other[1], other[2])

\* C18: the manager's history, a unit's own history and every series of the
\* analyzer never hold more entries than their capacity, and an insertion
\* succeeds at capacity too: the collection then holds the entries it held
\* without the oldest ones, followed by the entries inserted.
C18_BoundedCollectionsEvictOldest ==
  /\ [](fm # Idle => Len(fm.m_faultHistory) <= FmHistoryKept)
  /\ [](sub # Idle => Len(sub.m_faultHistory) <= HistoryKept)
  /\ [](ta # Idle => \A k \in AllSeries : Len(Series(ta, k[1], k[2])) <= DataPointsKept)
  /\ [][RegistrationStep =>
          /\ fm'.m_faultHistory # <<>>
          /\ LET new == fm'.m_faultHistory[Len(fm'.m_faultHistory)]
             IN  /\ new.subsystemId = fm'.call[2] /\ new.code = fm'.call[3]
                 /\ new.timestamp = now
                 /\ fm'.m_faultHistory = Inserted(fm.m_faultHistory, <<new>>, FmHistoryKept)]_vars
  /\ [][\A c \in Codes \cup {FAULT_INPUT_LOW, FAULT_OVERTEMP} :
          (UnitClearStep /\ IndexOfCode(sub.m_activeFaults, c, 1) # 0 /\ sub' = ClearFault(sub, c)) =>
             sub'.m_faultHistory =
               Inserted(sub.m_faultHistory,
                        <<[sub.m_activeFaults[IndexOfCode(sub.m_activeFaults, c, 1)]
                             EXCEPT !.active = FALSE]>>,
                        HistoryKept)]_vars
  /\ [][(UnitClearStep /\ sub' = ClearAllFaults(sub)) =>
          sub'.m_faultHistory = Inserted(sub.m_faultHistory, Moved(sub), HistoryKept)]_vars
  /\ [][AddStep =>
          \E k \in AllSeries, v \in TaValues :
             /\ Appended(k[1], k[2])
             /\ Series(ta', k[1], k[2]) =
                  Inserted(Series(ta, k[1], k[2]),
                           <<[value |-> v, timestampMs |-> now]>>, DataPointsKept)]_vars

\* A registration at capacity: the manager has counted more registrations
\* than its history holds, the history is full and the record just
\* registered is its newest entry, behind an older one
C18_Witness ==
  /\ fm # Idle /\ fm.call[1] = "registerFault" /\ fm.emitted # <<>>
  /\ Len(fm.m_faultHistory) = FmHistoryKept
  /\ Registrations(fm) > FmHistoryKept
  /\ fm.m_faultHistory[1].timestamp < now
  /\ fm.m_faultHistory[Len(fm.m_faultHistory)].timestamp = now

\* An addDataPoint on a full series has dropped its oldest point
C18_SeriesEvicted ==
  /\ ta # Idle /\ ta.added > DataPointsKept
  /\ \E k \in AllSeries :
        /\ Len(Series(ta, k[1], k[2])) = DataPointsKept
        /\ Series(ta, k[1], k[2])[1].timestampMs > 0

\* A clearFault on a unit with a full history has replaced its entry
C18_UnitEvicted ==
  /\ sub # Idle /\ Len(sub.m_faultHistory) = HistoryKept /\ sub.m_activeFaults # <<>>
  /\ sub.m_faultHistory[1].code # Head(sub.m_activeFaults).code

\* The estimate the history alone defines: -1 below two faults of the
\* unit in the history, else (last - first) / (count - 1)
HistoryMTBF(m, subsystemId) ==
  LET times == HistoryTimes(m, subsystemId)
      count == Cardinality({j \in 1..Len(m.m_faultHistory) :
                              m.m_faultHistory[j].subsystemId = subsystemId})
  IN  IF count < 2 THEN NoEstimate
      ELSE <<Latest(times) - Earliest(times), MS_PER_HOUR * (count - 1)>>

\* Two values of an estimate are equal (quotients compared by cross
\* multiplication)
SameEstimate(a, b) == a[1] * b[2] = b[1] * a[2]

\* C19: estimateMTBF(unit) returns -1 unless the history holds at least two
\* faults of the unit, and otherwise the time from the unit's first to its
\* last fault in the history divided by (count - 1), count being the number
\* of the unit's faults in the history.
C19_MtbfFromHistory ==
  [][(FmCallStep /\ fm'.call[1] = "estimateMTBF") =>
       SameEstimate(fm'.call[3], HistoryMTBF(fm, fm'.call[2]))]_vars

\* The positions of an event among the signals of a call
Positions(emitted, event) == {i \in 1..Len(emitted) : emitted[i] = event}

\* C20: registerFault emits criticalFaultOccurred(unit, code) exactly when
\* the pair was not active and the severity registered is Critical or Fatal,
\* once, after faultRegistered for the same fault and for no other fault;
\* Info and Warning registrations, registrations of an active pair and the
\* other calls of the manager never emit it.
C20_CriticalSignalOnNewCriticalOnly ==
  /\ [][(FmCallStep /\ fm'.call[1] = "registerFault") =>
          LET key == MakeFaultKey(fm'.call[2], fm'.call[3])
              new == key \notin DOMAIN fm.m_activeFaults
              critical == Positions(fm'.emitted, <<"criticalFaultOccurred", fm'.call[2], fm'.call[3]>>)
              registered == Positions(fm'.emitted, <<"faultRegistered", fm'.call[2], fm'.call[3]>>)
          IN  /\ critical # {} <=>
                   (new /\ fm'.m_activeFaults[key].severity \in {CRITICAL, FATAL})
              /\ Cardinality(critical) <= 1
              /\ \A i \in critical : \E j \in registered : j < i
              /\ \A i \in 1..Len(fm'.emitted) :
                    fm'.emitted[i][1] = "criticalFaultOccurred" => i \in critical]_vars
  /\ [][(FmCallStep /\ fm'.call[1] # "registerFault") =>
          \A i \in 1..Len(fm'.emitted) : fm'.emitted[i][1] # "criticalFaultOccurred"]_vars

\* A Fatal fault has been registered and the signal followed faultRegistered
C20_Witness ==
  /\ fm # Idle /\ fm.call = <<"registerFault", "U2", "F1">>
  /\ fm.emitted = <<<<"faultRegistered", "U2", "F1">>, <<"faultsChanged">>,
                    <<"criticalFaultOccurred", "U2", "F1">>>>
  /\ fm.m_activeFaults[MakeFaultKey("U2", "F1")].severity = FATAL

(***************************************************************************)
(* Properties of the uptime accounting (SpecUptime)                        *)
(***************************************************************************)
\* updateState(u, state) has been called in this step
UpdateStateStep(u, state) ==
  ut # Idle /\ ut' # Idle /\ ut'.calls # ut.calls /\ ut'.call = <<"updateState", u, state>>

\* C21: updateState with a state other than the current one of a registered
\* unit adds the time since the last state change to the uptime if the
\* unit was OK or Degraded, to the downtime if it was Fail and to neither if
\* it was Unknown, and counts one transition; with the current state it
\* changes no record and emits nothing.
C21_UpdateStateAttributesTime ==
  [][\A u \in UtUnits, state \in HealthState :
       (UpdateStateStep(u, state) /\ u \in DOMAIN ut.m_records) =>
          LET old == ut.m_records[u]
              new == ut'.m_records[u]
              durationMs == now - old.lastStateChange
          IN  IF old.currentState # state
                THEN /\ new.totalUptimeMs = old.totalUptimeMs +
                          (IF old.currentState \in {"OK", "DEGRADED"} THEN durationMs ELSE 0)
                     /\ new.totalDowntimeMs = old.totalDowntimeMs +
                          (IF old.currentState = "FAIL" THEN durationMs ELSE 0)
                     /\ new.stateTransitions = old.stateTransitions + 1
                     /\ new.currentState = state
                     /\ \A other \in DOMAIN ut.m_records \ {u} :
                           ut'.m_records[other] = ut.m_records[other]
                ELSE /\ ut'.m_records = ut.m_records
                     /\ ut'.m_history = ut.m_history
                     /\ ut'.emitted = <<>>]_vars

\* A unit has left Fail after some time: the time went to its downtime
C21_Witness ==
  /\ ut # Idle /\ ut.call = <<"updateState", "U1", "OK">>
  /\ "U1" \in DOMAIN ut.m_records
  /\ ut.m_records["U1"].totalDowntimeMs = ClockStepMs
  /\ ut.m_records["U1"].totalUptimeMs = 0
  /\ ut.m_records["U1"].stateTransitions = 2
  /\ <<"outageEnded", "U1", ClockStepMs>> \in Range(ut.emitted)

\* C22: for every registered unit the uptime and the downtime add up to
\* the time since its registration, up to the time in the state it is in
\* that no state change has attributed yet; the sum never exceeds the time
\* since the registration.
C22_TotalsAddUpToElapsed ==
  ut # Idle =>
    \A u \in DOMAIN ut.m_records :
       LET record == ut.m_records[u]
           sum == record.totalUptimeMs + record.totalDowntimeMs
           elapsed == now - record.startTime
       IN  /\ sum <= elapsed
           /\ elapsed - sum <= now - record.lastStateChange

\* The quotient value lies in [0, 100]
IsPercent(value) == value[2] > 0 /\ 0 <= value[1] /\ value[1] <= 100 * value[2]

\* C23: the availability returned for a unit is 100 * uptime / (uptime +
\* downtime) when uptime + downtime > 0 and 100 when no time has accrued,
\* the system availability is the same quotient of the sums over all
\* records, and every availability returned lies in [0, 100].
C23_AvailabilityIsUptimeShare ==
  /\ [](ut # Idle /\ ut.call[1] = "getSubsystemAvailability" /\ ut.call[2] \in DOMAIN ut.m_records =>
          LET record == ut.m_records[ut.call[2]]
              total == record.totalUptimeMs + record.totalDowntimeMs
              value == ut.call[3]
          IN  /\ total > 0 => value[1] * total = 100 * record.totalUptimeMs * value[2]
              /\ total = 0 => value[1] = 100 * value[2]
              /\ IsPercent(value))
  /\ [](ut # Idle /\ ut.call[1] = "getSystemAvailability" =>
          LET up == SumField(ut.m_records, "totalUptimeMs", DOMAIN ut.m_records)
              down == SumField(ut.m_records, "totalDowntimeMs", DOMAIN ut.m_records)
              value == ut.call[2]
          IN  /\ up + down > 0 => value[1] * (up + down) = 100 * up * value[2]
              /\ up + down = 0 => value[1] = 100 * value[2]
              /\ IsPercent(value))
  /\ [](ut # Idle =>
          \A i \in 1..Len(ut.m_history) :
             /\ IsPercent(ut.m_history[i].systemAvailability)
             /\ \A u \in DOMAIN ut.m_history[i].subsystemAvailability :
                   IsPercent(ut.m_history[i].subsystemAvailability[u]))

\* An availability strictly between 0 and 100 has been returned for a unit
\* with uptime and downtime
C23_Witness ==
  /\ ut # Idle /\ ut.call[1] = "getSubsystemAvailability"
  /\ ut.call[2] \in DOMAIN ut.m_records
  /\ ut.m_records[ut.call[2]].totalUptimeMs > 0
  /\ ut.m_records[ut.call[2]].totalDowntimeMs > 0
  /\ 0 < ut.call[3][1] /\ ut.call[3][1] < 100 * ut.call[3][2]

(***************************************************************************)
(* Properties of TelemetryData (SpecTelemetry)                             *)
(***************************************************************************)
\* The value of the parameter is a number outside [minValue, maxValue]
OutOfBounds(param) ==
  /\ param.value.t = "double"
  /\ \/ IsValidVariant(param.minValue) /\ Less(param.value, param.minValue.v)
     \/ IsValidVariant(param.maxValue) /\ Greater(param.value, param.maxValue.v)

\* C24: in every reachable state a parameter whose numeric value lies
\* outside its [minValue, maxValue] bounds has isValid = false.
C24_OutOfBoundsIsInvalid ==
  td # Idle =>
    \A n \in DOMAIN td.m_parameters :
       OutOfBounds(td.m_parameters[n]) => ~td.m_parameters[n].isValid

(***************************************************************************)
(* Properties of getHealthSnapshot against processHealthData               *)
(* (SpecSnapshot)                                                          *)
(***************************************************************************)
\* The fields of the snapshot the reader has copied so far
Copied ==
  CASE thd.r.pc = "score" -> {"state"}
    [] thd.r.pc = "message" -> {"state", "score"}
    [] thd.r.pc = "unlock" -> HealthFields
    [] thd.r.pc = "out" /\ thd.r.calls > 0 -> HealthFields
    [] OTHER -> {}

\* C25: a reader that calls getHealthSnapshot while processHealthData runs
\* never sees a half-written result: the state, the score and the status
\* message of one snapshot were written by one and the same recompute pass
\* (or all three by the constructor).
C25_SnapshotIsOfOnePass ==
  thd # Idle => \A f, g \in Copied : thd.r.stamp[f] = thd.r.stamp[g]

\* The reader copies the fields a pass wrote while the object's thread is
\* inside the next processHealthData, waiting for the mutex
C25_Witness ==
  /\ thd # Idle
  /\ thd.r.pc = "message" /\ thd.r.stamp.state >= 1
  /\ thd.w.pc = "lock"

(***************************************************************************)
(* Properties of the statistics of TrendAnalyzer (SpecTrend)               *)
(***************************************************************************)
TrSeries == Series(ta, TrUnit, TrParameter)

\* value = 10 + 0.5 * secondsElapsed, one point per second, 3 points or more
IsRisingLine(data) ==
  /\ Len(data) >= MIN_TREND_POINTS
  /\ \A i \in 1..Len(data) :
       /\ data[i].timestampMs = 1000 * (i - 1)
       /\ 2 * data[i].value = VALUE_SCALE * (20 + (i - 1))

\* One point per second, 3 points or more, none further than half a unit
\* from 50
IsSmallNoise(data) ==
  /\ Len(data) >= MIN_TREND_POINTS
  /\ \A i \in 1..Len(data) :
       /\ data[i].timestampMs = 1000 * (i - 1)
       /\ 2 * Abs(data[i].value - 50 * VALUE_SCALE) <= VALUE_SCALE

\* C27: for the series value = 10 + 0.5 * secondsElapsed with one point per
\* second and at least 3 points analyzeTrend returns the direction
\* Increasing and an R-squared of 1; for small noise around a constant mean
\* it returns the direction Stable.
C27_LinearSeriesIsIncreasing ==
  (ta # Idle /\ fn # Idle /\ fn.op = "analyzeTrend") =>
    /\ IsRisingLine(TrSeries) =>
         fn.result.direction = "Increasing" /\ fn.result.rSquared = Whole(1)
    /\ IsSmallNoise(TrSeries) => fn.result.direction = "Stable"

\* |value - mean| > m_anomalyThreshold * stdDev over the whole series,
\* compared by the squares
BeyondThreshold(data, value) ==
  LET mean == ComputeMean(data)
  IN  QLess(QMul(Whole(m_anomalyThreshold * m_anomalyThreshold),
                 ComputeVariance(data, mean)),
            QSquare(QSub(Whole(value), mean)))

\* C28: isAnomaly(unit, parameter, v) is true exactly when the series has
\* at least 10 points and |v - mean| is more than 3.0 standard deviations
\* of the whole series; for a series of mean 50 and standard deviation 2
\* the value 65 is flagged and 51 is not.
C28_AnomalyBeyondThreeDeviations ==
  (ta # Idle /\ fn # Idle /\ fn.op = "isAnomaly") =>
    /\ fn.result <=> (Len(TrSeries) >= MIN_ANOMALY_POINTS
                        /\ BeyondThreshold(TrSeries, fn.value))
    /\ TrSeries = BurstSeries(MIN_ANOMALY_POINTS, Scaled(Mean50Dev2)) =>
         /\ fn.value = 65 * VALUE_SCALE => fn.result
         /\ fn.value = 51 * VALUE_SCALE => ~fn.result

(***************************************************************************)
(* Properties of the queries (SpecQueries)                                 *)
(***************************************************************************)
\* The component the query op belongs to does not know the unit, or not
\* the parameter of the unit, the last query asked for
AskedUnknown ==
  CASE fn'.op \in QueriesFm ->
         /\ GetActiveFaults(fm, fn'.id) = {}
         /\ \A i \in 1..Len(fm.m_faultHistory) :
              fm.m_faultHistory[i].subsystemId # fn'.id
         /\ fn'.id \notin DOMAIN fm.m_subsystemFaultCounts
    [] fn'.op \in QueriesUt -> fn'.id \notin DOMAIN ut.m_records
    [] fn'.op \in QueriesTa ->
         \/ fn'.id \notin DOMAIN ta.m_data
         \/ fn'.parameter \notin DOMAIN ta.m_data[fn'.id]
    [] fn'.op \in QueriesMgr -> fn'.id \notin DOMAIN mgr.m_subsystems
    [] OTHER -> FALSE

\* C26: a query for a unit or a parameter the component does not know
\* returns the empty, absent or default result of that query, and no query
\* changes the state of any component: no record is created.
C26_UnknownKeyQueriesAreInert ==
  [][/\ AskedUnknown => fn'.result = DefaultResult(fn'.op)
     /\ fm' = fm /\ ut' = ut /\ ta' = ta /\ mgr' = mgr]_vars

\* Every component knows unit U1, and the last query asked the trend
\* analyzer about a unit it has never seen
C26_Witness ==
  /\ fn # Idle /\ ta # Idle /\ fm # Idle /\ ut # Idle /\ mgr # Idle
  /\ fn.op = "analyzeTrend" /\ fn.id = "U9"
  /\ "U1" \in DOMAIN ta.m_data /\ "U1" \in DOMAIN ut.m_records
  /\ "U1" \in DOMAIN mgr.m_subsystems /\ GetActiveFaults(fm, "U1") # {}

(***************************************************************************)
(* Termination of processHealthData (SpecUnit)                             *)
(***************************************************************************)
\* C29: processHealthData terminates on every type of unit: it never waits
\* for m_mutex while its own thread holds it, and once it has returned the
\* mutex is released and m_processingHealth is false.
C29_PassReturnsUnlocked ==
  sub # Idle =>
    /\ sub.pc # "deadlock"
    /\ sub.pc = "idle" => (sub.m_mutex = "free" /\ ~sub.m_processingHealth)

(***************************************************************************)
(* The FaultManager's view of a registered unit (SpecManager)              *)
(***************************************************************************)
\* C30: once every queued delivery has run, the codes the FaultManager holds
\* active for the registered unit are the codes active in the unit itself,
\* whatever addFault, clearFault, clearAllFaults and reset calls were made on
\* the unit and however they interleaved with the event loop.
C30_LedgerMatchesUnitAfterDrain ==
  (mgr # Idle /\ mgr.queue = <<>>) =>
    {f.code : f \in GetActiveFaults(mgr.m_faultManager, MgrUnit)}
      = ActiveCodes(mgr.m_subsystems[MgrUnit].m_activeFaults)

\* The Critical and Fatal faults active in a unit
CriticalInUnit(unit) ==
  {i \in 1..Len(unit.m_activeFaults) :
     unit.m_activeFaults[i].severity \in {CRITICAL, FATAL}}

\* C31: a fault of the registered unit is held by the FaultManager with the
\* severity it has in the unit, and when the two hold the same codes
\* getCriticalFaultCount() is the number of the unit's active Critical and
\* Fatal faults.
C31_LedgerKeepsSeverity ==
  mgr # Idle =>
    LET unit == mgr.m_subsystems[MgrUnit]
        held == GetActiveFaults(mgr.m_faultManager, MgrUnit)
    IN  /\ \A f \in held : \A i \in 1..Len(unit.m_activeFaults) :
             unit.m_activeFaults[i].code = f.code
               => f.severity = unit.m_activeFaults[i].severity
        /\ {f.code : f \in held} = ActiveCodes(unit.m_activeFaults)
             => GetCriticalFaultCount(mgr.m_faultManager)
                  = Cardinality(CriticalInUnit(unit))

(***************************************************************************)
(* The spacing of a unit's healthChanged signals (SpecUnit)                *)
(***************************************************************************)
\* The debounce timer's timeout emits the pending healthChanged in this step
TimerEmitsHealth ==
  /\ sub.debounceLeft = 0 /\ sub'.debounceLeft = None
  /\ sub.m_pendingHealthSignal /\ ~sub'.m_pendingHealthSignal

\* C32: two successive healthChanged signals of a unit, sent by
\* processHealthData or by the debounce timer, are at least
\* SIGNAL_DEBOUNCE_MS apart: whenever one is sent, that much time has passed
\* since the one before it.
C32_HealthSignalsDebounced ==
  [][(sub # Idle /\ sub' # Idle) =>
       (((PassStep /\ sub'.lastNotify = "immediate") \/ TimerEmitsHealth)
          => sub.sinceHealthSignal >= SIGNAL_DEBOUNCE_MS)]_vars

(***************************************************************************)
(* The system health after a pass (SpecSystem)                             *)
(***************************************************************************)
\* computeSystemHealth has run in this step
SystemHealthPass ==
  mgr # Idle /\ mgr' # Idle /\ "passParity" \in DOMAIN mgr
    /\ mgr'.passParity # mgr.passParity

\* C33: a pass emits systemHealthChanged only if it changed the system
\* state or moved the system score by more than 0.01; a pass over unchanged
\* inputs, and a pass with no unit on the canvas, emits nothing.
C33_EmitsOnlyOnChange ==
  [][(SystemHealthPass /\ mgr'.emitted)
       => \/ mgr'.m_systemHealthState # mgr.m_systemHealthState
          \/ ScoreMoved(mgr'.m_systemHealthScore, mgr.m_systemHealthScore)]_vars

\* The system state and score as functions of the units on the canvas
StateOfCanvas(g) ==
  LET on == OnCanvas(g)
      has(state) == \E id \in on : g.m_subsystems[id].m_healthState = state
  IN  IF on = {} THEN "UNKNOWN"
      ELSE IF has("FAIL") THEN "FAIL"
      ELSE IF has("DEGRADED") THEN "DEGRADED"
      ELSE IF \E id \in on : g.m_subsystems[id].m_enabled THEN "OK"
      ELSE "UNKNOWN"

ScoreOfCanvas(g) ==
  LET enabled == {id \in OnCanvas(g) : g.m_subsystems[id].m_enabled}
  IN  IF enabled = {} THEN Whole(SCORE_FULL)
      ELSE QDiv(Whole(TotalScore(g, enabled)), Whole(Cardinality(enabled)))

StateAndCountsOfCanvas(g) ==
  /\ g.m_systemHealthState = StateOfCanvas(g)
  /\ ~QLess(g.m_systemHealthScore, Whole(0))
  /\ ~QLess(Whole(SCORE_FULL), g.m_systemHealthScore)
  /\ g.m_cachedHealthyCount + g.m_cachedDegradedCount + g.m_cachedFailedCount
       <= Cardinality(OnCanvas(g))

AfterPass == mgr # Idle /\ "fresh" \in DOMAIN mgr /\ mgr.fresh

\* C38 as stated: after a pass the system score is the mean score of the
\* enabled units on the canvas.
C38_ScoreIsTheMean ==
  AfterPass =>
    /\ StateAndCountsOfCanvas(mgr)
    /\ mgr.m_systemHealthScore = ScoreOfCanvas(mgr)

\* C38: after a pass the system state is Unknown with no unit on the canvas,
\* else Fail, Degraded, OK or Unknown by the first that applies of: a unit on
\* the canvas is Fail, one is Degraded, one is enabled, none is; the system
\* score lies in [0, 100] and is within 0.01 of the mean score of the enabled
\* units on the canvas (100 if there are none), equal to it when the pass
\* emitted systemHealthChanged; the three counts add up to no more than the
\* number of units on the canvas.
C38_SystemHealthAfterPass ==
  AfterPass =>
    /\ StateAndCountsOfCanvas(mgr)
    /\ ~QLess(Whole(SYSTEM_SCORE_EPSILON),
              QAbs(QSub(mgr.m_systemHealthScore, ScoreOfCanvas(mgr))))
    /\ mgr.emitted => mgr.m_systemHealthScore = ScoreOfCanvas(mgr)

\* A pass has left the system score off the mean of two units on the canvas,
\* one of which has failed
C38_Witness ==
  /\ AfterPass
  /\ Cardinality(OnCanvas(mgr)) = 2
  /\ mgr.m_systemHealthState = "FAIL"
  /\ mgr.m_systemHealthScore # ScoreOfCanvas(mgr)

(***************************************************************************)
(* The faults and the score of a processed item (SpecPipeline)             *)
(***************************************************************************)
\* The direction in which a value breaches a threshold of its table, warning
\* or critical
Breach(d, th) ==
  IF \/ (th.warningHigh # None /\ Greater(d, th.warningHigh))
     \/ (th.criticalHigh # None /\ Greater(d, th.criticalHigh)) THEN "HIGH"
  ELSE IF \/ (th.warningLow # None /\ Less(d, th.warningLow))
          \/ (th.criticalLow # None /\ Less(d, th.criticalLow)) THEN "LOW"
  ELSE "none"

\* C34: processData detects exactly one fault for every numeric parameter
\* that breaches a warning or critical threshold of the threshold table,
\* named from the parameter and the direction of the breach, and none for
\* the other parameters.
C34_OneFaultPerBreach ==
  (fn # Idle /\ fn.validation.valid) =>
    LET data == fn.validation.sanitizedData
        breaching == {p \in DOMAIN data \cap DOMAIN DefaultThresholds :
                        Breach(ToDouble(data[p]), DefaultThresholds[p]) # "none"}
        expected == {ToUpper(p) \o "-" \o Breach(ToDouble(data[p]), DefaultThresholds[p]) :
                       p \in breaching}
    IN  /\ Range(fn.result.detectedFaults) = expected
        /\ Len(fn.result.detectedFaults) = Cardinality(breaching)

\* A penalty that is 0 up to the warning threshold, grows linearly past it
\* and reaches the critical penalty at the critical threshold
LinearPenalty(distance, span, criticalPenalty) ==
  IF distance <= 0 THEN 0
  ELSE IF distance >= span THEN criticalPenalty
  ELSE (criticalPenalty * distance) \div span

PIPELINE_CRITICAL_PENALTY == 3000

\* C35: the score of an item is 100 less, for each parameter, a penalty that
\* is 0 up to the warning threshold, grows linearly with the distance past
\* it and reaches the critical penalty at the critical threshold without a
\* jump at either threshold.
C35_PenaltyIsLinear ==
  (fn # Idle /\ fn.validation.valid) =>
    LET data == fn.validation.sanitizedData
        th == DefaultThresholds.temperature
    IN  ("temperature" \in DOMAIN data /\ ToDouble(data.temperature).c = "finite")
          => fn.result.healthScore
               = SCORE_FULL - LinearPenalty(ToDouble(data.temperature).v - th.warningHigh,
                                            th.criticalHigh - th.warningHigh,
                                            PIPELINE_CRITICAL_PENALTY)

(***************************************************************************)
(* The pipeline's counters (SpecPipeline)                                  *)
(***************************************************************************)
\* C36: between the pipeline's operations the number of items ever submitted
\* is processedCount + errorCount + the number of queued items, however
\* submissions interleave with the iterations of the drain ticks.
C36_ItemsAreConserved ==
  (pl # Idle /\ pl.pc = "idle") =>
    pl.submitted = pl.m_processedCount + pl.m_errorCount + Len(pl.m_dataQueue)

\* A tick has counted a valid and an invalid item, and an item submitted
\* since is waiting
C36_Witness ==
  /\ pl # Idle /\ pl.pc = "idle"
  /\ pl.m_processedCount > 0 /\ pl.m_errorCount > 0 /\ pl.m_dataQueue # <<>>

(***************************************************************************)
(* Injected faults in their unit (SpecInjector)                            *)
(***************************************************************************)
\* C37: whenever hasFault(U, C) is true for the registered unit U, fault C is
\* in U's list of active faults with the severity it was injected with.
C37_InjectedFaultIsActiveInUnit ==
  (mgr # Idle /\ "injector" \in DOMAIN mgr) =>
    \A code \in InjCodes :
      HasFault(mgr, MgrUnit, code) =>
        \E i \in 1..Len(mgr.m_subsystems[MgrUnit].m_activeFaults) :
          LET fault == mgr.m_subsystems[MgrUnit].m_activeFaults[i]
          IN  /\ fault.code = code
              /\ fault.severity
                   = mgr.injector.m_activeFaults[MakeFaultKey(MgrUnit, code)].severity

(***************************************************************************)
(* State against score in the compute functions (SpecUnit)                 *)
(***************************************************************************)
\* C39: for an enabled unit the resolved state and score agree: a Degraded
\* or Fail state comes with a score strictly below 100, and a score of 100
\* comes with the state OK.
C39_StateAgreesWithScore ==
  (fn # Idle /\ fn.m_enabled) =>
    /\ fn.state \in {"DEGRADED", "FAIL"} => fn.score < SCORE_FULL
    /\ fn.score = SCORE_FULL => fn.state = "OK"

(***************************************************************************)
(* The outage signals of the UptimeTracker (SpecUptime)                    *)
(***************************************************************************)
\* C40: for each unit outageStarted and outageEnded strictly alternate,
\* beginning with outageStarted: a call emits outageStarted only for a unit
\* without an open outage and outageEnded only for a unit with one, whatever
\* the sequence of registerSubsystem, unregisterSubsystem, updateState, reset
\* and resetSubsystem.
C40_OutagesAlternate ==
  [][(ut # Idle /\ ut' # Idle /\ ut'.calls # ut.calls) =>
       \A i \in DOMAIN ut'.emitted :
         /\ ut'.emitted[i][1] = "outageStarted" => ut'.emitted[i][2] \notin ut.open
         /\ ut'.emitted[i][1] = "outageEnded" => ut'.emitted[i][2] \in ut.open]_vars

====
